---- MODULE Spec2Model ----
(***************************************************************************)
(* A model of the Oracle market-analyst backend: the macro and gamma       *)
(* classifiers, the CFTC positioning client and its cache, the synthesis   *)
(* gateway's JSON recovery, the trade renderer, the daily pipeline with    *)
(* the requests, stage history and field writers of a run, the report      *)
(* store, the Oracle's construction and two entry points, two runs         *)
(* interleaved on one Oracle, the report scheduler and its threads, and    *)
(* the research cache of the storage layer.                                *)
(*                                                                         *)
(* Conventions.  A Python Optional is a sequence of length 0 (None) or 1.  *)
(* Decimal quantities are integers in tenths (3.5 is 35).  Every           *)
(* specification below has its own Init and Next over the same variables;  *)
(* the variables of the other components stay at their idle values.        *)
(***************************************************************************)
EXTENDS Integers, Sequences, FiniteSets, TLC

VARIABLES
    \* MacroEconomist._determine_regime
    risk,               \* series id -> Optional value (tenths)
    data,               \* series id -> Optional value (tenths)
    regime_analysis,    \* Optional regime string
    \* FuturesDataClient gamma analysis
    vix_price,          \* Optional VIX reading (whole points)
    spy_vol,            \* Optional realized volatility (whole points)
    gamma_tuple,        \* Optional result of _calculate_gamma_from_vix
    gamma_analysis,     \* Optional result of get_market_gamma
    \* CotClient
    row,                \* one CSV row of the feed (a sequence of column texts)
    row_done,           \* whether `row` has been parsed
    analyzed,           \* Optional: the analyzed record made of `row`
    _cache,             \* asset -> positioning record (in memory)
    _cache_timestamp,   \* Optional hour of the last refresh
    disk,               \* the durable cache file cot_data.json
    disk_writable,      \* whether cot_data.json can be written
    now,                \* the wall clock, in hours since a Monday 00:00
    cache_valid,        \* Optional result of _is_cache_valid
    report,             \* Optional: what get_latest_report last returned
    skipped_log,        \* the "Skipping ..." warnings of the last refresh
    last_call,          \* Optional: what the last get_latest_report call did
    written,            \* Optional: the record set _save_cache last wrote
    raw_data,           \* Optional: the feed text the refresh under study reads
    \* LLMClient
    response,           \* the model's raw text, a sequence of tokens
    extracted,          \* Optional result of _extract_json
    schema_result,      \* Optional result of generate_with_schema
    \* ReportGenerator._format_trades
    trades,             \* state.trades handed to the renderer
    formatted_trades,   \* Optional result of _format_trades
    \* Oracle.run_daily_brief
    pc,                 \* the stage the run is about to execute
    state,              \* the MarketState of the run
    failing,            \* adapter -> whether its requests fail in this run
    run_error,          \* Optional exception that ended the run
    reports,            \* reports/daily: date -> the report saved for it
    saves,              \* date -> how many times its report file was written
    entry,              \* the entry point executing: "daily" or "research"
    requests,           \* boundary call -> requests issued during the run
    stages,             \* the stages that have started, in order
    writers,            \* state field -> the stages that have written it
    synthesis_input,    \* Optional: the arguments handed to synthesize_research
    \* Oracle
    settings,           \* the configured credentials and provider
    oracle,             \* "none", "constructed" or "raised"
    runs,               \* the entry-point calls made so far
    \* ReportGenerator.generate_daily called on copies of one state
    rendered,           \* the results of the calls, in order
    \* Two runs of run_daily_brief on one Oracle
    run_pc,             \* run -> the stage it is about to execute
    run_state,          \* started run -> its MarketState
    run_ref,            \* started run -> the object its cot_report refers to
    run_inputs,         \* run -> what its adapters and the provider answer
    received,           \* started run -> what its stages were handed
    heap,               \* the dicts CotClient._cache has been bound to
    cache_ref,          \* the dict CotClient._cache is bound to now
    \* SimpleScheduler
    running,            \* self.running
    queue,              \* the events of the sched.scheduler queue
    premarket_job,      \* Optional: the event start() got for the premarket job
    postmarket_job,     \* Optional: the event start() got for the postmarket job
    threads,            \* the background threads started so far
    clock,              \* the wall clock, in half hours since midnight of day 0
    fired,              \* the jobs executed so far, in order
    api_calls,          \* the start() and stop() calls made so far, in order
    \* Database research cache
    research_cache,     \* key -> the row of table research_cache
    db_now,             \* the wall clock, in hours since midnight UTC of day 0
    last_set,           \* Optional: the last cache_set call
    last_get            \* Optional: the last cache_get call and its result

macroVars == <<risk, data, regime_analysis>>
gammaVars == <<vix_price, spy_vol, gamma_tuple, gamma_analysis>>
rowVars == <<row, row_done, analyzed>>
clientVars == <<_cache, _cache_timestamp, disk, disk_writable, report, skipped_log,
               last_call, written, raw_data>>
cotVars == <<rowVars, clientVars, now, cache_valid>>
llmVars == <<response, extracted, schema_result>>
renderVars == <<trades, formatted_trades>>
auditVars == <<entry, requests, stages, writers, synthesis_input>>
pipeVars == <<pc, state, failing, run_error, reports, saves, auditVars>>
entryVars == <<settings, oracle, runs, rendered>>
synthVars == <<llmVars, renderVars, pipeVars, entryVars>>
concVars == <<run_pc, run_state, run_ref, run_inputs, received, heap, cache_ref>>
schedVars == <<running, queue, premarket_job, postmarket_job, threads, clock, fired,
               api_calls>>
dbVars == <<research_cache, db_now, last_set, last_get>>
extVars == <<concVars, schedVars, dbVars>>
vars == <<macroVars, gammaVars, cotVars, synthVars, extVars>>

None == <<>>
Some(v) == <<v>>
IsNone(o) == o = <<>>
Val(o) == o[1]

\* Python truthiness of an Optional number: None and 0 are both falsy.
Truthy(o) == o # <<>> /\ o[1] # 0

-----------------------------------------------------------------------------
(* MacroEconomist._determine_regime                                        *)

RiskSeries == {"VIXCLS", "BAMLH0A0HYM2", "T10Y2Y"}
DataSeries == {"GDP", "CPIAUCSL", "UNRATE"}

CRISIS == "CRISIS - VIX elevated, risk-off dominant"
RISK_OFF_CREDIT == "RISK_OFF - Credit stress, HY spreads widening"
RISK_OFF_CURVE == "RISK_OFF - Yield curve deeply inverted"
TRANSITIONAL_LATE == "TRANSITIONAL - Late-cycle, inflationary pressures"
RISK_OFF_STAGFLATION == "RISK_OFF - Stagflationary risk"
RISK_ON_GOLDILOCKS == "RISK_ON - Goldilocks, low vol expansion"
RISK_ON_EXPANSION == "RISK_ON - Early-to-mid cycle expansion"
TRANSITIONAL_MIXED == "TRANSITIONAL - Mixed signals"

\* thresholds, in tenths
VixCrisis == 300
HySpreadStress == 50
CurveInverted == -5
CpiHot == 35
UnemploymentTight == 45
GdpExpansion == 25
VixLow == 150

_determine_regime(d, r) ==
    LET vix == r["VIXCLS"]
        hy_spread == r["BAMLH0A0HYM2"]
        curve_10y2y == r["T10Y2Y"]
        gdp == d["GDP"]
        cpi == d["CPIAUCSL"]
        unemployment == d["UNRATE"]
    IN  IF Truthy(vix) /\ Val(vix) > VixCrisis THEN CRISIS
        ELSE IF Truthy(hy_spread) /\ Val(hy_spread) > HySpreadStress
            THEN RISK_OFF_CREDIT
        ELSE IF Truthy(curve_10y2y) /\ Val(curve_10y2y) < CurveInverted
            THEN RISK_OFF_CURVE
        ELSE IF Truthy(cpi) /\ Val(cpi) > CpiHot
            THEN IF Truthy(unemployment) /\ Val(unemployment) < UnemploymentTight
                 THEN TRANSITIONAL_LATE
                 ELSE RISK_OFF_STAGFLATION
        ELSE IF Truthy(gdp) /\ Val(gdp) > GdpExpansion
            THEN IF Truthy(vix) /\ Val(vix) < VixLow
                 THEN RISK_ON_GOLDILOCKS
                 ELSE RISK_ON_EXPANSION
        ELSE TRANSITIONAL_MIXED

\* Readings the FRED adapter can hand over (tenths); None is a failed or
\* empty series.
VixReadings == {None, Some(0), Some(140), Some(150), Some(300), Some(350)}
HyReadings == {None, Some(0), Some(50), Some(60)}
CurveReadings == {None, Some(0), Some(-5), Some(-6)}
GdpReadings == {None, Some(0), Some(25), Some(30)}
CpiReadings == {None, Some(0), Some(35), Some(40)}
UnrateReadings == {None, Some(0), Some(40), Some(45), Some(50)}

MacroIdle ==
    /\ risk = [s \in RiskSeries |-> None]
    /\ data = [s \in DataSeries |-> None]
    /\ regime_analysis = None

MacroInit ==
    /\ risk \in {[VIXCLS |-> v, BAMLH0A0HYM2 |-> h, T10Y2Y |-> c] :
                    v \in VixReadings, h \in HyReadings, c \in CurveReadings}
    /\ data \in {[GDP |-> g, CPIAUCSL |-> c, UNRATE |-> u] :
                    g \in GdpReadings, c \in CpiReadings, u \in UnrateReadings}
    /\ regime_analysis = None

DetermineRegime ==
    /\ regime_analysis = None
    /\ regime_analysis' = Some(_determine_regime(data, risk))
    /\ UNCHANGED <<risk, data, gammaVars, extVars, cotVars, synthVars>>

-----------------------------------------------------------------------------
(* FuturesDataClient._calculate_gamma_from_vix and get_market_gamma        *)

\* A regime name is the sequence of its words ("NEUTRAL_SLIGHT_SHORT" is
\* <<"NEUTRAL", "SLIGHT", "SHORT">>), so that Python's substring test
\* `"SLIGHT" in gamma` is a computation on the name.
SHORT == <<"SHORT">>
NEUTRAL_SLIGHT_SHORT == <<"NEUTRAL", "SLIGHT", "SHORT">>
NEUTRAL == <<"NEUTRAL">>
NEUTRAL_SLIGHT_LONG == <<"NEUTRAL", "SLIGHT", "LONG">>
LONG == <<"LONG">>
UNKNOWN == <<"UNKNOWN">>

Contains(name, word) == \E i \in 1..Len(name) : name[i] = word

VixVeryLow == 12
VixNormalLow == 18
VixNormalHigh == 25
VixCrisisMode == 35

\* The if/elif waterfall: the raw regime with its labels and notes.
GammaWaterfall(vix) ==
    IF vix < VixVeryLow THEN
        [gamma |-> SHORT, sput |-> "HIGH", dealer |-> "SHORT_GAMMA",
         notes |-> <<"VIX < 12: Options sellers dominating, short gamma regime",
                     "Risk: Vol spike would cause rapid dealer hedging">>]
    ELSE IF vix < VixNormalLow THEN
        [gamma |-> NEUTRAL_SLIGHT_SHORT, sput |-> "MEDIUM",
         dealer |-> "FLAT_SLIGHT_SHORT",
         notes |-> <<"VIX 12-18: Normal volatility, balanced positioning">>]
    ELSE IF vix < VixNormalHigh THEN
        [gamma |-> NEUTRAL, sput |-> "MEDIUM", dealer |-> "FLAT",
         notes |-> <<"VIX 18-25: Standard volatility environment">>]
    ELSE IF vix < VixCrisisMode THEN
        [gamma |-> NEUTRAL_SLIGHT_LONG, sput |-> "LOW",
         dealer |-> "FLAT_SLIGHT_LONG",
         notes |-> <<"VIX 25-35: Elevated volatility, some dealers long gamma">>]
    ELSE
        [gamma |-> LONG, sput |-> "LOW", dealer |-> "LONG_GAMMA",
         notes |-> <<"VIX > 35: Crisis volatility, dealers likely long gamma (protection)">>]

\* The normalization left out: the raw regime is returned as it is.
GammaNormalize_Raw(gamma) == gamma

\* Normalize gamma regime to 3 categories.
GammaNormalize(gamma) == IF Contains(gamma, "SLIGHT") THEN NEUTRAL ELSE gamma

_calculate_gamma_from_vix(vix) ==
    LET w == GammaWaterfall(vix)
    IN  [gamma_normalized |-> GammaNormalize(w.gamma), sput |-> w.sput,
         dealer |-> w.dealer, notes |-> w.notes]

\* get_market_gamma with the realized-volatility adjustment applied to every
\* base regime.
get_market_gamma_AlwaysAdjust(vix, spy) ==
    IF ~Truthy(vix) THEN
        [vix_level |-> None, gamma_regime |-> UNKNOWN, sput_risk |-> "UNKNOWN",
         dealer_positioning |-> "UNKNOWN",
         notes |-> <<"Could not fetch VIX data for gamma analysis">>]
    ELSE
        LET t == _calculate_gamma_from_vix(Val(vix))
            low == spy # None /\ 10 * Val(spy) < 8 * Val(vix)
            high == spy # None /\ ~low /\ 10 * Val(spy) > 12 * Val(vix)
        IN  [vix_level |-> vix,
             gamma_regime |-> IF low THEN SHORT ELSE IF high THEN LONG
                              ELSE t.gamma_normalized,
             sput_risk |-> t.sput, dealer_positioning |-> t.dealer,
             notes |-> t.notes]

\* spy: the realized volatility of SPY, None when yfinance is absent, the
\* download is empty or it raises.  realized < 0.8 x implied and
\* realized > 1.2 x implied are compared without fractions.
get_market_gamma(vix, spy) ==
    IF ~Truthy(vix) THEN
        [vix_level |-> None, gamma_regime |-> UNKNOWN, sput_risk |-> "UNKNOWN",
         dealer_positioning |-> "UNKNOWN",
         notes |-> <<"Could not fetch VIX data for gamma analysis">>]
    ELSE
        LET t == _calculate_gamma_from_vix(Val(vix))
            low == spy # None /\ 10 * Val(spy) < 8 * Val(vix)
            high == spy # None /\ ~low /\ 10 * Val(spy) > 12 * Val(vix)
            spy_notes == IF spy = None THEN <<>>
                         ELSE <<"SPY realized vol", "SPY price">>
            adj_notes == IF low THEN <<"Realized vol < implied vol - options overpriced">>
                         ELSE IF high THEN <<"Realized vol > implied vol - options underpriced">>
                         ELSE <<>>
            regime == IF low /\ t.gamma_normalized = NEUTRAL THEN SHORT
                      ELSE IF high /\ t.gamma_normalized = NEUTRAL THEN LONG
                      ELSE t.gamma_normalized
        IN  [vix_level |-> vix, gamma_regime |-> regime, sput_risk |-> t.sput,
             dealer_positioning |-> t.dealer,
             notes |-> t.notes \o spy_notes \o adj_notes]

\* The largest VIX reading drawn.
MaxVix == 45
SpyReadings == {None, Some(5), Some(20), Some(60)}

GammaIdle ==
    /\ vix_price = None
    /\ spy_vol = None
    /\ gamma_tuple = None
    /\ gamma_analysis = None

GammaInit ==
    /\ vix_price \in {None} \cup {Some(v) : v \in 0..MaxVix}
    /\ spy_vol \in SpyReadings
    /\ gamma_tuple = None
    /\ gamma_analysis = None

CalculateGammaFromVix ==
    /\ vix_price # None
    /\ gamma_tuple = None
    /\ gamma_tuple' = Some(_calculate_gamma_from_vix(Val(vix_price)))
    /\ UNCHANGED <<vix_price, spy_vol, gamma_analysis, macroVars, cotVars, synthVars,
                   extVars>>

GetMarketGamma ==
    /\ gamma_analysis = None
    /\ gamma_analysis' = Some(get_market_gamma(vix_price, spy_vol))
    /\ UNCHANGED <<vix_price, spy_vol, gamma_tuple, macroVars, cotVars, synthVars,
                   extVars>>

-----------------------------------------------------------------------------
(* CotClient: parsing and validating the CFTC feed                         *)

\* A column text is a sequence of characters.
DigitVal ==
    ("0" :> 0) @@ ("1" :> 1) @@ ("2" :> 2) @@ ("3" :> 3) @@ ("4" :> 4) @@
    ("5" :> 5) @@ ("6" :> 6) @@ ("7" :> 7) @@ ("8" :> 8) @@ ("9" :> 9)

RECURSIVE LStrip(_)
LStrip(s) == IF s # <<>> /\ Head(s) = " " THEN LStrip(Tail(s)) ELSE s

RECURSIVE RStrip(_)
RStrip(s) ==
    IF s # <<>> /\ s[Len(s)] = " " THEN RStrip(SubSeq(s, 1, Len(s) - 1)) ELSE s

\* str.strip()
Strip(s) == RStrip(LStrip(s))

\* str.replace(c, "")
Remove(s, c) == SelectSeq(s, LAMBDA x : x # c)

RECURSIVE DecimalValue(_)
DecimalValue(s) ==
    IF s = <<>> THEN 0
    ELSE 10 * DecimalValue(SubSeq(s, 1, Len(s) - 1)) + DigitVal[s[Len(s)]]

AllDigits(s) == s # <<>> /\ \A i \in 1..Len(s) : s[i] \in DOMAIN DigitVal

\* int(text) once text is stripped: a sign is accepted; anything else raises
\* ValueError, which is None here.
PyIntStripped(t) ==
    IF AllDigits(t) THEN Some(DecimalValue(t))
    ELSE IF t # <<>> /\ Head(t) = "-" /\ AllDigits(Tail(t))
        THEN Some(0 - DecimalValue(Tail(t)))
    ELSE IF t # <<>> /\ Head(t) = "+" /\ AllDigits(Tail(t))
        THEN Some(DecimalValue(Tail(t)))
    ELSE None

\* int(text): surrounding blanks are accepted.
PyInt(text) == PyIntStripped(Strip(text))

\* The except branch of _parse_int: a ValueError gives 0.
OrZero(v) == IF v = None THEN 0 ELSE Val(v)

_parse_int(s) == OrZero(PyInt(Remove(Remove(Strip(s), ","), "\"")))

\* A market name is the sequence of its words; str.lower() acts word by word
\* and `a in b` is containment of a run of words.
Lower(w) ==
    CASE w = "Gold" -> "GOLD"
      [] w = "gold" -> "GOLD"
      [] OTHER -> w

LowerName(name) == [i \in 1..Len(name) |-> Lower(name[i])]

IsInfix(a, b) ==
    \E i \in 0..(Len(b) - Len(a)) : \A k \in 1..Len(a) : b[i + k] = a[k]

ASSET_MAPPINGS ==
    << <<LowerName(<<"CRUDE", "OIL,", "LIGHT", "SWEET", "-", "NEW", "YORK",
                    "MERCANTILE", "EXCHANGE">>), "Crude Oil">>,
       <<LowerName(<<"GOLD", "-", "COMMODITY", "EXCHANGE", "INC.">>), "Gold">>,
       <<LowerName(<<"EURO", "FX", "-", "CHICAGO", "MERCANTILE", "EXCHANGE">>),
         "EUR/USD">>,
       <<LowerName(<<"E-MINI", "S&P", "500", "-", "CHICAGO", "MERCANTILE",
                    "EXCHANGE">>), "S&P 500">>,
       <<LowerName(<<"10-YEAR", "U.S.", "TREASURY", "NOTES", "-", "CHICAGO",
                    "BOARD", "OF", "TRADE">>), "10-Year Treasury">>,
       <<LowerName(<<"CRUDE", "OIL,", "LIGHT", "SWEET">>), "Crude Oil">>,
       <<LowerName(<<"GOLD">>), "Gold">>,
       <<LowerName(<<"EURO", "FX">>), "EUR/USD">>,
       <<LowerName(<<"E-MINI", "S&P", "500">>), "S&P 500">>,
       <<LowerName(<<"10-YEAR", "U.S.", "TREASURY", "NOTES">>), "10-Year Treasury">>,
       <<LowerName(<<"10", "YEAR", "U.S.", "TREASURY", "NOTES">>),
         "10-Year Treasury">> >>

\* The loop over ASSET_MAPPINGS from its i-th entry: the asset of the first
\* mapping whose name occurs in the lower-cased market name, None when the
\* loop ends without a break.
RECURSIVE FirstMapping(_, _)
FirstMapping(lowered, i) ==
    IF i > Len(ASSET_MAPPINGS) THEN None
    ELSE IF IsInfix(ASSET_MAPPINGS[i][1], lowered) THEN Some(ASSET_MAPPINGS[i][2])
    ELSE FirstMapping(lowered, i + 1)

LookupAsset(market_name) == FirstMapping(LowerName(market_name), 1)

Abs(n) == IF n < 0 THEN 0 - n ELSE n

MinColumns == 10

\* _parse_int(row[k]) if len(row) > k else 0
Column(r, k) == IF Len(r) > k THEN _parse_int(r[k + 1]) ELSE 0

\* The sanity checks without the one on open_interest.
SkipReason_NoOiCheck(open_interest, noncomm_net, comm_net) ==
    IF Abs(noncomm_net) > open_interest
        THEN Some("noncomm_net exceeds open_interest")
    ELSE IF Abs(comm_net) > open_interest
        THEN Some("comm_net exceeds open_interest")
    ELSE None

\* The three sanity checks of _parse_cot_row, in the code's order: the
\* reason logged by the first that fails, None when the positions pass.
SkipReason(open_interest, noncomm_net, comm_net) ==
    IF open_interest <= 0 THEN Some("invalid open_interest")
    ELSE IF Abs(noncomm_net) > open_interest
        THEN Some("noncomm_net exceeds open_interest")
    ELSE IF Abs(comm_net) > open_interest
        THEN Some("comm_net exceeds open_interest")
    ELSE None

\* _parse_cot_row once the columns are read: `parsed` is the value returned
\* (None when the row is skipped) and `warning` what logger.warning is given
\* on the way (None when nothing is logged).  The date column is Some(day)
\* when it is a well-formed %Y-%m-%d text and None otherwise; today is the
\* clock's day.
CheckedRow(market_name, date, today, our_asset_name, open_interest, noncomm_long, noncomm_short, comm_long, comm_short, reason) ==
    IF market_name = <<>> \/ Head(market_name) = "Market"
        THEN [parsed |-> None, warning |-> None]
    ELSE IF our_asset_name = None THEN [parsed |-> None, warning |-> None]
    ELSE IF reason # None
        THEN [parsed |-> None, warning |-> Some(<<Val(our_asset_name), Val(reason)>>)]
    ELSE [parsed |-> Some([asset |-> Val(our_asset_name),
                           cftc_name |-> market_name,
                           date |-> IF date = None THEN today ELSE Val(date),
                           open_interest |-> open_interest,
                           noncommercial_long |-> noncomm_long,
                           noncommercial_short |-> noncomm_short,
                           noncommercial_net |-> noncomm_long - noncomm_short,
                           commercial_long |-> comm_long,
                           commercial_short |-> comm_short,
                           commercial_net |-> comm_long - comm_short]),
          warning |-> None]

\* The columns of a row with at least MinColumns columns.
ReadColumns(r, today, open_interest, noncomm_long, noncomm_short, comm_long, comm_short) ==
    CheckedRow(r[1], r[3], today, LookupAsset(r[1]), open_interest,
               noncomm_long, noncomm_short, comm_long, comm_short,
               SkipReason(open_interest, noncomm_long - noncomm_short,
                          comm_long - comm_short))

\* _parse_cot_row on a feed row.  Python's row[k] is r[k + 1].
RowOutcome(r, today) ==
    IF Len(r) < MinColumns THEN [parsed |-> None, warning |-> None]
    ELSE ReadColumns(r, today, Column(r, 7), Column(r, 8), Column(r, 9),
                     Column(r, 11), Column(r, 12))

\* The positioning record of a feed row, None when the row is skipped.
_parse_cot_row(r, today) == RowOutcome(r, today).parsed

CrowdedPct == 30
ElevatedPct == 15
CommercialPct == 10

\* round(x, 2) of n / d * 100, in hundredths of a percent.
RoundPct(n, d) ==
    LET q == (Abs(n) * 20000 + d) \div (2 * d)
    IN  IF n < 0 THEN 0 - q ELSE q

\* The labels with the commercial checks made before the speculative ones.
PositioningLabel_CommercialFirst(noncomm_net, comm_net, open_interest) ==
    IF comm_net > 0 /\ Abs(comm_net) * CommercialPct > open_interest THEN
        <<"Commercials net long - Smart money bullish", "BULLISH">>
    ELSE IF comm_net < 0 /\ Abs(comm_net) * CommercialPct > open_interest THEN
        <<"Commercials net short - Smart money bearish", "BEARISH">>
    ELSE IF noncomm_net * 100 > CrowdedPct * open_interest THEN
        <<"Speculative longs at extreme - CROWDED", "BEARISH - Contrarian">>
    ELSE IF noncomm_net * 100 > ElevatedPct * open_interest THEN
        <<"Speculative longs elevated", "CAUTIOUS - Longs crowded">>
    ELSE IF noncomm_net * 100 < (0 - CrowdedPct) * open_interest THEN
        <<"Speculative shorts at extreme - CROWDED", "BULLISH - Contrarian">>
    ELSE IF noncomm_net * 100 < (0 - ElevatedPct) * open_interest THEN
        <<"Speculative shorts elevated", "CAUTIOUS - Shorts crowded">>
    ELSE
        <<"Balanced positioning", "NEUTRAL">>

\* The label and signal of a record.  spec_net_pct > 30 is compared as
\* noncomm_net * 100 > 30 * open_interest, and abs(comm_net) >
\* open_interest * 0.1 as abs(comm_net) * 10 > open_interest.
PositioningLabel(noncomm_net, comm_net, open_interest) ==
    IF noncomm_net * 100 > CrowdedPct * open_interest THEN
        <<"Speculative longs at extreme - CROWDED", "BEARISH - Contrarian">>
    ELSE IF noncomm_net * 100 > ElevatedPct * open_interest THEN
        <<"Speculative longs elevated", "CAUTIOUS - Longs crowded">>
    ELSE IF noncomm_net * 100 < (0 - CrowdedPct) * open_interest THEN
        <<"Speculative shorts at extreme - CROWDED", "BULLISH - Contrarian">>
    ELSE IF noncomm_net * 100 < (0 - ElevatedPct) * open_interest THEN
        <<"Speculative shorts elevated", "CAUTIOUS - Shorts crowded">>
    ELSE IF comm_net > 0 /\ Abs(comm_net) * CommercialPct > open_interest THEN
        <<"Commercials net long - Smart money bullish", "BULLISH">>
    ELSE IF comm_net < 0 /\ Abs(comm_net) * CommercialPct > open_interest THEN
        <<"Commercials net short - Smart money bearish", "BEARISH">>
    ELSE
        <<"Balanced positioning", "NEUTRAL">>

_analyze_positioning(d) ==
    LET open_interest == IF d.open_interest = 0 THEN 1 ELSE d.open_interest
        label == PositioningLabel(d.noncommercial_net, d.commercial_net,
                                  open_interest)
    IN  [asset |-> d.asset,
         cftc_name |-> d.cftc_name,
         date |-> d.date,
         open_interest |-> d.open_interest,
         noncommercial_long |-> d.noncommercial_long,
         noncommercial_short |-> d.noncommercial_short,
         noncommercial_net |-> d.noncommercial_net,
         commercial_long |-> d.commercial_long,
         commercial_short |-> d.commercial_short,
         commercial_net |-> d.commercial_net,
         positioning |-> label[1],
         signal |-> label[2],
         spec_net_pct |-> RoundPct(d.noncommercial_net, open_interest),
         source |-> "CFTC Commitment of Traders Report"]

HoursPerDay == 24
DaysPerWeek == 7
Friday == 4
CutoverHour == 16
MaxCacheAgeDays == 7

\* datetime.weekday(): Monday is 0.
Weekday(t) == (t \div HoursPerDay) % DaysPerWeek

_is_cache_valid(ts, t) ==
    IF ts = None THEN FALSE
    ELSE IF t - Val(ts) > MaxCacheAgeDays * HoursPerDay THEN FALSE
    ELSE IF Weekday(t) >= Friday THEN
        LET today_4pm == (t - (t % HoursPerDay)) + CutoverHour
            friday_4pm == IF Weekday(t) > Friday
                          THEN today_4pm - (Weekday(t) - Friday) * HoursPerDay
                          ELSE today_4pm
        IN  ~(Val(ts) < friday_4pm /\ t >= friday_4pm)
    ELSE TRUE

EmptyDict == <<>>

\* dict[key] = value
Put(dict, key, value) ==
    [k \in DOMAIN dict \cup {key} |-> IF k = key THEN value ELSE dict[k]]

\* The loop body without `if asset_name not in parsed_data`.
AddRow_LastWins(before, outcome) ==
    LET log == IF outcome.warning = None THEN before.log
               ELSE before.log \cup {Val(outcome.warning)}
    IN  IF outcome.parsed # None
        THEN [parsed_data |-> Put(before.parsed_data, Val(outcome.parsed).asset,
                                  _analyze_positioning(Val(outcome.parsed))),
              log |-> log]
        ELSE [parsed_data |-> before.parsed_data, log |-> log]

\* One pass of _refresh_data's loop: a row's record is stored unless the
\* row was skipped or its asset already has a record.
AddRow(before, outcome) ==
    LET log == IF outcome.warning = None THEN before.log
               ELSE before.log \cup {Val(outcome.warning)}
    IN  IF outcome.parsed # None
           /\ Val(outcome.parsed).asset \notin DOMAIN before.parsed_data
        THEN [parsed_data |-> Put(before.parsed_data, Val(outcome.parsed).asset,
                                  _analyze_positioning(Val(outcome.parsed))),
              log |-> log]
        ELSE [parsed_data |-> before.parsed_data, log |-> log]

\* The loop of _refresh_data over the rows of the feed: parsed_data after
\* the rows rows[1..n], starting from the empty dict, and the warnings logged.
RECURSIVE ParseRows(_, _, _)
ParseRows(rows, n, today) ==
    IF n = 0 THEN [parsed_data |-> EmptyDict, log |-> {}]
    ELSE AddRow(ParseRows(rows, n - 1, today), RowOutcome(rows[n], today))

\* The file cot_data.json: absent, not JSON, or {"data": ..., "timestamp": ...}
\* whose timestamp is null, an ISO-8601 text or some other text.
NoFile == [kind |-> "absent"]
CorruptFile == [kind |-> "corrupt"]
NullTimestamp == [kind |-> "null"]
IsoTimestamp(t) == [kind |-> "iso", t |-> t]
MalformedTimestamp == [kind |-> "malformed"]
CacheFile(d, timestamp) == [kind |-> "json", data |-> d, timestamp |-> timestamp]

\* json.dump writes an int as its decimal digits and a float by repr; the
\* percentages, rounded to two places, are kept here in hundredths.
DigitChars == <<"0", "1", "2", "3", "4", "5", "6", "7", "8", "9">>

RECURSIVE JsonDigits(_)
JsonDigits(n) ==
    IF n < 10 THEN <<DigitChars[n + 1]>>
    ELSE Append(JsonDigits(n \div 10), DigitChars[(n % 10) + 1])

JsonInt(n) == IF n < 0 THEN <<"-">> \o JsonDigits(0 - n) ELSE JsonDigits(n)

JsonFloat(h) ==
    (IF h < 0 THEN <<"-">> ELSE <<>>)
        \o JsonDigits(Abs(h) \div 100) \o <<".">>
        \o (IF Abs(h) % 10 = 0 THEN <<DigitChars[((Abs(h) % 100) \div 10) + 1]>>
            ELSE <<DigitChars[((Abs(h) % 100) \div 10) + 1], DigitChars[(Abs(h) % 10) + 1]>>)

\* json.load reads a number without "." as an int, one with "." as a float.
JsonSigned(text, magnitude) == IF Head(text) = "-" THEN 0 - magnitude ELSE magnitude

Unsigned(text) == IF Head(text) = "-" THEN Tail(text) ELSE text

ParseJsonInt(text) == JsonSigned(text, DecimalValue(Unsigned(text)))

PointAt(text) == CHOOSE i \in 1..Len(text) : text[i] = "."

ParseJsonFloat(text) ==
    LET digits == Unsigned(text)
        whole == SubSeq(digits, 1, PointAt(digits) - 1)
        fraction == SubSeq(digits, PointAt(digits) + 1, Len(digits))
    IN  JsonSigned(text,
            100 * DecimalValue(whole)
                + (IF Len(fraction) = 1 THEN 10 * DecimalValue(fraction)
                   ELSE DecimalValue(SubSeq(fraction, 1, 2))))

IntFields ==
    {"open_interest", "noncommercial_long", "noncommercial_short",
     "noncommercial_net", "commercial_long", "commercial_short", "commercial_net"}
FloatFields == {"spec_net_pct"}

\* One record as json.dump writes it: numbers as text, strings as they are.
JsonDumpRecord(rec) ==
    [f \in DOMAIN rec |->
        IF f \in IntFields THEN JsonInt(rec[f])
        ELSE IF f \in FloatFields THEN JsonFloat(rec[f])
        ELSE rec[f]]

JsonLoadRecord(rec) ==
    [f \in DOMAIN rec |->
        IF f \in IntFields THEN ParseJsonInt(rec[f])
        ELSE IF f \in FloatFields THEN ParseJsonFloat(rec[f])
        ELSE rec[f]]

JsonDump(cache) == [a \in DOMAIN cache |-> JsonDumpRecord(cache[a])]
JsonLoad(d) == [a \in DOMAIN d |-> JsonLoadRecord(d[a])]

\* _load_cache without the timestamp: only the records are taken.
_load_cache_DataOnly(cache, ts, file) ==
    IF file.kind # "json" THEN [cache |-> cache, ts |-> ts]
    ELSE [cache |-> JsonLoad(file.data), ts |-> ts]

\* _load_cache taking a file without a readable timestamp as written at
\* the start hour.
_load_cache_DefaultTimestamp(cache, ts, file) ==
    IF file.kind # "json" THEN [cache |-> cache, ts |-> ts]
    ELSE [cache |-> JsonLoad(file.data),
          ts |-> IF file.timestamp.kind = "iso" THEN Some(file.timestamp.t)
                 ELSE Some(84)]

\* The client's fields [cache, ts] after _load_cache.  On a malformed
\* timestamp fromisoformat raises after _cache has been assigned.
_load_cache(cache, ts, file) ==
    IF file.kind # "json" THEN [cache |-> cache, ts |-> ts]
    ELSE [cache |-> JsonLoad(file.data),
          ts |-> IF file.timestamp.kind = "iso" THEN Some(file.timestamp.t) ELSE ts]

\* The file after _save_cache; a failed write is swallowed and leaves it.
_save_cache(cache, ts, file, writable) ==
    IF ~writable THEN file
    ELSE CacheFile(JsonDump(cache),
                   IF ts = None THEN NullTimestamp ELSE IsoTimestamp(Val(ts)))

\* The end of _refresh_data without the check for an empty parsed_data.
InstallParsed_AcceptEmpty(cache, ts, file, t, writable, loop) ==
    [raised |-> FALSE, cache |-> loop.parsed_data, ts |-> Some(t),
     disk |-> _save_cache(loop.parsed_data, Some(t), file, writable),
     log |-> loop.log]

\* The end of _refresh_data, after the loop: no record raises RuntimeError
\* and leaves the client as it was.
InstallParsed(cache, ts, file, t, writable, loop) ==
    IF DOMAIN loop.parsed_data = {}
    THEN [raised |-> TRUE, cache |-> cache, ts |-> ts, disk |-> file,
          log |-> loop.log]
    ELSE [raised |-> FALSE, cache |-> loop.parsed_data, ts |-> Some(t),
          disk |-> _save_cache(loop.parsed_data, Some(t), file, writable),
          log |-> loop.log]

\* _refresh_data with the assignments made before the check for an empty
\* parsed_data.
_refresh_data_AssignFirst(cache, ts, file, feed, t, writable) ==
    IF feed = None
    THEN [raised |-> TRUE, cache |-> cache, ts |-> ts, disk |-> file, log |-> {}]
    ELSE LET loop == ParseRows(Val(feed), Len(Val(feed)), t \div HoursPerDay)
         IN  [raised |-> DOMAIN loop.parsed_data = {}, cache |-> loop.parsed_data,
              ts |-> Some(t),
              disk |-> _save_cache(loop.parsed_data, Some(t), file, writable),
              log |-> loop.log]

\* _refresh_data on the raw feed (None: _fetch_cot_data raised).  `raised`
\* tells whether it ends in RuntimeError.
_refresh_data(cache, ts, file, feed, t, writable) ==
    IF feed = None
    THEN [raised |-> TRUE, cache |-> cache, ts |-> ts, disk |-> file, log |-> {}]
    ELSE InstallParsed(cache, ts, file, t, writable,
                       ParseRows(Val(feed), Len(Val(feed)), t \div HoursPerDay))

ErrorReport ==
    [error |-> "Failed to get COT data", source |-> "CFTC Commitment of Traders Report"]

\* The return of get_latest_report after a refresh: the error dict when the
\* refresh raised, the new cache otherwise.
AfterRefresh(fresh) ==
    [cache |-> fresh.cache, ts |-> fresh.ts, disk |-> fresh.disk,
     fetched |-> TRUE, log |-> fresh.log,
     result |-> IF fresh.raised THEN ErrorReport ELSE fresh.cache]

\* get_latest_report() once the cache file has been consulted.
AfterLoad(loaded, file, feed, t, writable) ==
    IF DOMAIN loaded.cache = {} \/ ~_is_cache_valid(loaded.ts, t)
    THEN AfterRefresh(_refresh_data(loaded.cache, loaded.ts, file, feed, t, writable))
    ELSE [cache |-> loaded.cache, ts |-> loaded.ts, disk |-> file,
          fetched |-> FALSE, log |-> {}, result |-> loaded.cache]

\* get_latest_report(): the client after the call, whether the feed was
\* fetched, the warnings logged, and the dict returned.
get_latest_report(cache, ts, file, feed, t, writable) ==
    AfterLoad(IF DOMAIN cache = {} THEN _load_cache(cache, ts, file)
              ELSE [cache |-> cache, ts |-> ts],
              file, feed, t, writable)

\* A feed row of 13 columns; the columns the parser does not read are empty.
MkRow(market_name, date, oi, nc_long, nc_short, c_long, c_short) ==
    <<market_name, <<>>, date, <<>>, <<>>, <<>>, <<>>, oi, nc_long, nc_short,
      <<>>, c_long, c_short>>

GoldName == <<"GOLD", "-", "COMMODITY", "EXCHANGE", "INC.">>
MicroGoldName == <<"MICRO", "Gold", "-", "COMMODITY", "EXCHANGE", "INC.">>
CrudeName == <<"CRUDE", "OIL,", "LIGHT", "SWEET", "-", "NEW", "YORK",
               "MERCANTILE", "EXCHANGE">>
WheatName == <<"WHEAT-SRW", "-", "CHICAGO", "BOARD", "OF", "TRADE">>
HeaderName == <<"Market", "and", "Exchange", "Names">>

\* The report date the feed's rows carry (a day number).
FeedDay == 8

\* Rows the feed of the client specification is made of.
AcceptedGold == MkRow(GoldName, Some(FeedDay), <<"2", "0">>, <<"7">>, <<"0">>,
                      <<"0">>, <<"3">>)
RevisedGold == MkRow(MicroGoldName, Some(FeedDay), <<"2", "0">>, <<"0">>, <<"0">>,
                     <<"0">>, <<"0">>)
AcceptedCrude == MkRow(CrudeName, Some(FeedDay), <<"\"", "1", "0", "\"">>,
                       <<"0">>, <<"4">>, <<"2">>, <<"0">>)
ZeroOiGold == MkRow(GoldName, Some(FeedDay), <<"0">>, <<"0">>, <<"0">>,
                    <<"0">>, <<"0">>)
TextOiCrude == MkRow(CrudeName, Some(FeedDay), <<"N", "A">>, <<"3">>, <<"0">>,
                     <<"0">>, <<"0">>)
OversizedGold == MkRow(GoldName, Some(FeedDay), <<"2", "0">>, <<"2", "5">>,
                       <<"0">>, <<"0">>, <<"0">>)
OversizedCrude == MkRow(CrudeName, Some(FeedDay), <<"2", "0">>, <<"0">>,
                        <<"0">>, <<"0">>, <<"2", "5">>)
WheatRow == MkRow(WheatName, Some(FeedDay), <<"2", "0">>, <<"3">>, <<"0">>,
                  <<"0">>, <<"0">>)
HeaderRow == MkRow(HeaderName, None, <<"O", "I">>, <<"L">>, <<"S">>, <<"L">>,
                   <<"S">>)
ShortRow == SubSeq(AcceptedGold, 1, 9)

\* Rows drawn for the row-level specification.
OiTexts == {<<"2", "0">>, <<"\"", "1", "0", "\"">>, <<"0">>, <<"N", "A">>,
            <<"-", "5">>, <<" ", "4", ",", "0", " ">>}
PositionTexts == {<<"0">>, <<"3">>, <<"4">>, <<"6">>, <<"7">>, <<"2", "5">>}
CommercialTexts == {<<"0">>, <<"2">>, <<"3">>, <<"2", "5">>}

PositioningRows ==
    {MkRow(m, Some(FeedDay), oi, nl, ns, cl, cs) :
        m \in {GoldName, WheatName}, oi \in OiTexts,
        nl \in PositionTexts, ns \in PositionTexts,
        cl \in CommercialTexts, cs \in CommercialTexts}

RowIdle ==
    /\ row = <<>>
    /\ row_done = FALSE
    /\ analyzed = None

RowInit ==
    /\ row \in PositioningRows \cup {WheatRow, HeaderRow, ShortRow}
    /\ row_done = FALSE
    /\ analyzed = None

\* The body of _refresh_data's loop on one row.
ParseAndAnalyzeRow ==
    /\ ~row_done
    /\ row_done' = TRUE
    /\ LET parsed == _parse_cot_row(row, now \div HoursPerDay)
       IN  analyzed' = IF parsed = None THEN None
                       ELSE Some(_analyze_positioning(Val(parsed)))
    /\ UNCHANGED <<row, clientVars, now, cache_valid, macroVars, gammaVars, extVars,
                   synthVars>>

\* Thursday 12:00 of the first week.
StartHour == 84

ClientIdle ==
    /\ _cache = EmptyDict
    /\ _cache_timestamp = None
    /\ disk = NoFile
    /\ disk_writable = TRUE
    /\ report = None
    /\ skipped_log = {}
    /\ last_call = None
    /\ written = None
    /\ raw_data = None

ClockIdle ==
    /\ now = StartHour
    /\ cache_valid = None

\* The latest cache timestamp and the longest cache age drawn, in hours.
MaxTimestamp == 167
MaxAhead == 200

CacheValidInit ==
    /\ _cache_timestamp \in {None} \cup {Some(t) : t \in 0..MaxTimestamp}
    /\ now \in 0..(MaxTimestamp + MaxAhead)
    /\ _cache_timestamp # None =>
            now >= Val(_cache_timestamp) /\ now <= Val(_cache_timestamp) + MaxAhead
    /\ _cache_timestamp = None => now <= MaxAhead
    /\ cache_valid = None
    /\ _cache = EmptyDict
    /\ disk = NoFile
    /\ disk_writable = TRUE
    /\ report = None
    /\ skipped_log = {}
    /\ last_call = None
    /\ written = None
    /\ raw_data = None

IsCacheValid ==
    /\ cache_valid = None
    /\ cache_valid' = Some(_is_cache_valid(_cache_timestamp, now))
    /\ UNCHANGED <<rowVars, clientVars, now, macroVars, gammaVars, extVars, synthVars>>

FeedRows == {AcceptedGold, RevisedGold, AcceptedCrude, ZeroOiGold, TextOiCrude,
             OversizedGold, OversizedCrude}

\* The most rows a feed has.
MaxFeedRows == 2

RECURSIVE SeqsUpTo(_, _)
SeqsUpTo(S, n) ==
    IF n = 0 THEN {<<>>}
    ELSE LET shorter == SeqsUpTo(S, n - 1)
         IN  shorter \cup {Append(q, x) : q \in {r \in shorter : Len(r) = n - 1}, x \in S}

\* What _fetch_cot_data yields: None when it raises, else the feed's rows.
Feeds == {None} \cup {Some(f) : f \in SeqsUpTo(FeedRows, MaxFeedRows)}

\* The latest hour the clock reaches, and the steps it advances by.
MaxNow == 132
TimeSteps == {24}

\* A client that has never run: no cache file, and a cache directory that
\* either accepts writes or refuses them.
CotInit ==
    /\ _cache = EmptyDict
    /\ _cache_timestamp = None
    /\ disk = NoFile
    /\ disk_writable \in BOOLEAN
    /\ report = None
    /\ skipped_log = {}
    /\ last_call = None
    /\ written = None
    /\ raw_data = None
    /\ ClockIdle

\* What a get_latest_report call found and did: whether the client had
\* nothing in memory, the timestamp in the cache file, the record set last
\* saved, the hour, whether the feed was fetched and answered, and how many
\* records the refresh accepted.
CallSummary(cache, ts, file, saved, feed, t, fetched) ==
    [fresh |-> cache = EmptyDict /\ ts = None,
     file_ts |-> IF file.kind = "json" /\ file.timestamp.kind = "iso"
                 THEN Some(file.timestamp.t) ELSE None,
     on_disk |-> saved,
     at |-> t,
     fetched |-> fetched,
     answered |-> fetched /\ feed # None,
     accepted |-> IF fetched /\ feed # None
                  THEN Cardinality(DOMAIN ParseRows(Val(feed), Len(Val(feed)),
                                                    t \div HoursPerDay).parsed_data)
                  ELSE 0]

\* One get_latest_report call during which _fetch_cot_data, if it is
\* reached, yields `feed`.
Call(feed) ==
    \E r \in {get_latest_report(_cache, _cache_timestamp, disk, feed, now,
                                 disk_writable)} :
        /\ _cache' = r.cache
        /\ _cache_timestamp' = r.ts
        /\ disk' = r.disk
        /\ report' = Some(r.result)
        /\ skipped_log' = IF r.fetched THEN r.log ELSE skipped_log
        /\ last_call' = Some(CallSummary(_cache, _cache_timestamp, disk,
                                         written, feed, now, r.fetched))
        /\ written' = IF r.fetched /\ r.result # ErrorReport /\ disk_writable
                      THEN Some(r.cache) ELSE written
        /\ UNCHANGED <<disk_writable, raw_data, rowVars, now, cache_valid, macroVars,
                       gammaVars, extVars, synthVars>>

GetLatestReport == \E feed \in Feeds : Call(feed)

\* CotClient.__init__ in a new process: the in-memory fields start empty.
NewClient ==
    /\ _cache' = EmptyDict
    /\ _cache_timestamp' = None
    /\ report' = None
    /\ last_call' = None
    /\ UNCHANGED <<disk, disk_writable, skipped_log, written, raw_data, rowVars, now,
                   cache_valid, macroVars, gammaVars, extVars, synthVars>>

Advance ==
    \E step \in TimeSteps :
        /\ now + step <= MaxNow
        /\ now' = now + step
        /\ UNCHANGED <<rowVars, clientVars, cache_valid, macroVars, gammaVars, extVars,
                       synthVars>>

\* The records of a cache file left by an earlier process.
StoredCrude == MkRow(CrudeName, Some(FeedDay), <<"3", "0">>, <<"1">>, <<"0">>,
                     <<"0">>, <<"1">>)
StoredRecords == ParseRows(<<StoredCrude>>, 1, StartHour \div HoursPerDay).parsed_data

\* The cache file a new client may find: none, one that is not JSON, and
\* one holding StoredRecords with a null timestamp, a timestamp that is not
\* ISO-8601, or the timestamp of the day before.
FoundFiles ==
    {NoFile, CorruptFile,
     CacheFile(JsonDump(StoredRecords), NullTimestamp),
     CacheFile(JsonDump(StoredRecords), MalformedTimestamp),
     CacheFile(JsonDump(StoredRecords), IsoTimestamp(StartHour - HoursPerDay))}

\* A new client, the file it finds, and the feed its refreshes will read.
RefreshInit ==
    /\ _cache = EmptyDict
    /\ _cache_timestamp = None
    /\ disk \in FoundFiles
    /\ disk_writable \in BOOLEAN
    /\ report = None
    /\ skipped_log = {}
    /\ last_call = None
    /\ written = None
    /\ raw_data \in Feeds
    /\ ClockIdle

\* get_latest_report with _fetch_cot_data yielding raw_data.
RefreshData == Call(raw_data)

-----------------------------------------------------------------------------
(* Python values exchanged with the synthesis gateway                      *)

\* A JSON/Python value is a record whose kind says which of its fields
\* carries the value: num (a number, in tenths), str (a string), items (the
\* elements of a list, or the values of a dict whose keys are names, both in
\* insertion order).  The fields a kind does not use stay at 0, "" and <<>>.
Py(kind, num, str, names, items) ==
    [kind |-> kind, num |-> num, str |-> str, names |-> names, items |-> items]

PyNone == Py("None", 0, "", <<>>, <<>>)
PyNum(n) == Py("num", n, "", <<>>, <<>>)
PyStr(s) == Py("str", 0, s, <<>>, <<>>)
PyList(items) == Py("list", 0, "", <<>>, items)
\* A dict from its <<key, value>> pairs.
PyDict(pairs) ==
    Py("dict", 0, "", [i \in 1..Len(pairs) |-> pairs[i][1]],
       [i \in 1..Len(pairs) |-> pairs[i][2]])
\* An f-string: its literal prefix and the interpolated tokens.
PyFStr(prefix, tokens) == Py("fstr", 0, prefix, tokens, <<>>)

IsDict(v) == v.kind = "dict"

\* bool(v)
PyTruthy(v) ==
    IF v.kind = "None" THEN FALSE
    ELSE IF v.kind = "num" THEN v.num # 0
    ELSE IF v.kind = "str" THEN v.str # ""
    ELSE IF v.kind = "fstr" THEN TRUE
    ELSE v.items # <<>>

HasKey(d, key) == \E i \in 1..Len(d.names) : d.names[i] = key

KeyIndex(d, key) == CHOOSE i \in 1..Len(d.names) : d.names[i] = key

\* d.get(key, default)
DictGet(d, key, default) ==
    IF HasKey(d, key) THEN d.items[KeyIndex(d, key)] ELSE default

\* d[key] = v: an existing key keeps its position, a new key goes last.
DictSet(d, key, v) ==
    IF HasKey(d, key)
    THEN [d EXCEPT !.items[KeyIndex(d, key)] = v]
    ELSE [d EXCEPT !.names = Append(@, key), !.items = Append(@, v)]

Without(s, i) == SubSeq(s, 1, i - 1) \o SubSeq(s, i + 1, Len(s))

\* d.pop(key, None)
DictRemove(d, key) ==
    IF HasKey(d, key)
    THEN [d EXCEPT !.names = Without(@, KeyIndex(d, key)),
                   !.items = Without(@, KeyIndex(d, key))]
    ELSE d

\* Values a for loop, len() or join() accepts; the JSON texts drawn put no
\* string where a list is expected.
Iterable(v) == v.kind \in {"list", "dict"}

\* The elements a for loop over v visits: a dict yields its keys.
Iterate(v) ==
    IF v.kind = "list" THEN v.items
    ELSE [i \in 1..Len(v.names) |-> PyStr(v.names[i])]

EmptyPyDict == PyDict(<<>>)
EmptyPyList == PyList(<<>>)

-----------------------------------------------------------------------------
(* LLMClient._extract_json and generate_with_schema                        *)

\* A response is a sequence of whitespace-separated tokens.  The JSON texts
\* the model may produce as one token, with the value json.loads gives them.
RegimeText == "{\"label\": \"RISK_ON\", \"drivers\": [\"d1\"], \"falsifiers\": [\"f1\"]}"
TradesText == "[{complete}, {no stop}, {complete}]"
IssuesText == "[\"stale quotes\"]"
RisksText == "[\"r1\", \"r2\"]"

RegimeValue ==
    PyDict(<< <<"label", PyStr("RISK_ON")>>,
              <<"drivers", PyList(<<PyStr("d1")>>)>>,
              <<"falsifiers", PyList(<<PyStr("f1")>>)>> >>)

TradeA ==
    PyDict(<< <<"name", PyStr("Long Gold")>>, <<"instrument", PyStr("GC")>>,
              <<"direction", PyStr("LONG")>>, <<"entry", PyStr("2650")>>,
              <<"stop", PyStr("2600")>>, <<"target", PyStr("2750")>> >>)
TradeB ==
    PyDict(<< <<"name", PyStr("Short EUR/USD")>>, <<"instrument", PyStr("6E")>>,
              <<"direction", PyStr("SHORT")>>, <<"entry", PyStr("1.0850")>>,
              <<"stop", PyStr("1.1050")>>, <<"target", PyStr("1.0650")>> >>)

TradesValue == PyList(<<TradeA, DictRemove(TradeB, "stop"), TradeB>>)

\* A trades list whose first trade has direction HOLD, conviction 9 and
\* size_pct 250.0, against the prompt's LONG | SHORT, 1-5 and 0.5-5.0.
WildTradesText == "[{HOLD, conviction 9, size_pct 250.0}, {complete, conviction 3}]"
WildTrade ==
    DictSet(DictSet(DictSet(TradeA, "direction", PyStr("HOLD")),
                    "conviction", PyNum(90)), "size_pct", PyNum(2500))
WildTradesValue == PyList(<<WildTrade, DictSet(TradeB, "conviction", PyNum(30))>>)

JsonTexts ==
    ("7" :> PyNum(70)) @@ ("null" :> PyNone) @@ ("0.8" :> PyNum(8))
        @@ ("[]" :> EmptyPyList)
        @@ (RegimeText :> RegimeValue) @@ (TradesText :> TradesValue)
        @@ (WildTradesText :> WildTradesValue)
        @@ (IssuesText :> PyList(<<PyStr("stale quotes")>>))
        @@ (RisksText :> PyList(<<PyStr("r1"), PyStr("r2")>>))

\* The key tokens of an object's members, "key": .
JsonKeys ==
    ("\"confidence\":" :> "confidence") @@ ("\"regime\":" :> "regime")
        @@ ("\"trades\":" :> "trades")
        @@ ("\"data_quality_issues\":" :> "data_quality_issues")
        @@ ("\"risk_factors\":" :> "risk_factors")

\* The members between the braces of an object, from token i up to the
\* closing brace: key and value tokens alternate.  None is JSONDecodeError.
RECURSIVE ParseMembers(_, _, _)
ParseMembers(text, i, acc) ==
    IF i = Len(text) THEN Some(acc)
    ELSE IF i + 1 = Len(text) THEN None
    ELSE IF text[i] \in DOMAIN JsonKeys /\ text[i + 1] \in DOMAIN JsonTexts
        THEN ParseMembers(text, i + 2,
                          DictSet(acc, JsonKeys[text[i]], JsonTexts[text[i + 1]]))
    ELSE None

\* json.loads(text): Some(value), or None for JSONDecodeError.
json_loads(text) ==
    IF Len(text) = 1
    THEN IF text[1] \in DOMAIN JsonTexts THEN Some(JsonTexts[text[1]]) ELSE None
    ELSE IF Len(text) >= 2 /\ text[1] = "{" /\ text[Len(text)] = "}"
        THEN ParseMembers(text, 2, EmptyPyDict)
    ELSE None

\* The fence tokens: three backticks, bare or followed by json.
IsFence(token) == token \in {"<fence>", "<fence>json"}

\* Index of the first fence at or after token i, 0 when there is none.
RECURSIVE FirstFence(_, _)
FirstFence(raw, i) ==
    IF i > Len(raw) THEN 0
    ELSE IF IsFence(raw[i]) THEN i
    ELSE FirstFence(raw, i + 1)

BlockAfter(raw, open, close) ==
    IF close = 0 THEN None ELSE Some(SubSeq(raw, open + 1, close - 1))

FencedFrom(raw, open) ==
    IF open = 0 THEN None
    ELSE BlockAfter(raw, open, FirstFence(raw, open + 1))

\* group(1) of the first match of: fence, optional json, the shortest
\* text, fence.
FencedBlock(raw) == FencedFrom(raw, FirstFence(raw, 1))

Positions(raw, token) == {i \in 1..Len(raw) : raw[i] = token}

Min(S) == CHOOSE x \in S : \A y \in S : x <= y
Max(S) == CHOOSE x \in S : \A y \in S : y <= x

SpanBetween(raw, open, close) ==
    IF open < close THEN Some(SubSeq(raw, open, close)) ELSE None

BraceSpan_Shortest(raw) ==
    IF Positions(raw, "{") = {} \/ Positions(raw, "}") = {} THEN None
    ELSE IF \A j \in Positions(raw, "}") : j < Min(Positions(raw, "{"))
        THEN None
    ELSE SpanBetween(raw, Min(Positions(raw, "{")),
                     Min({j \in Positions(raw, "}") :
                            j > Min(Positions(raw, "{"))}))

\* re.search(r"\{[\s\S]*\}", raw).group(0): greedy, from the first
\* opening brace to the last closing brace.
BraceSpan(raw) ==
    IF Positions(raw, "{") = {} \/ Positions(raw, "}") = {} THEN None
    ELSE SpanBetween(raw, Min(Positions(raw, "{")),
                     Max(Positions(raw, "}")))

\* One tier's try/except around json.loads: the parse when it succeeds,
\* otherwise whatever the remaining tiers give.
TryParse(parsed, attempts, otherwise) ==
    IF parsed # None THEN [value |-> Val(parsed), attempts |-> attempts]
    ELSE [value |-> otherwise.value, attempts |-> attempts \o otherwise.attempts]

NoMatch == [value |-> PyNone, attempts |-> <<>>]

TierBraces(json_match) ==
    IF json_match = None THEN NoMatch
    ELSE TryParse(json_loads(Val(json_match)), <<"braces">>, NoMatch)

TierFenced(json_match, raw) ==
    IF json_match = None THEN TierBraces(BraceSpan(raw))
    ELSE TryParse(json_loads(Val(json_match)), <<"fenced">>,
                  TierBraces(BraceSpan(raw)))

\* The value returned and the parsers attempted, in order.
_extract_json(raw) ==
    TryParse(json_loads(raw), <<"full">>,
             TierFenced(FencedBlock(raw), raw))

FragmentLen == 3

\* raw[:500]
Fragment(raw) ==
    SubSeq(raw, 1, IF Len(raw) < FragmentLen THEN Len(raw)
                        ELSE FragmentLen)

DegradedResult(raw) ==
    PyDict(<< <<"executive_summary", PyStr("Failed to parse LLM raw")>>,
              <<"regime", PyDict(<< <<"label", PyStr("TRANSITIONAL")>>,
                                    <<"drivers", EmptyPyList>>,
                                    <<"falsifiers", EmptyPyList>> >>)>>,
              <<"trades", EmptyPyList>>,
              <<"risk_factors", EmptyPyList>>,
              <<"positioning_analysis", EmptyPyDict>>,
              <<"confidence", PyNum(0)>>,
              <<"data_quality_issues",
                PyList(<<PyFStr("LLM raw was not valid JSON: ",
                                Fragment(raw))>>)>> >>)

OrDegraded(result, raw) ==
    IF result = PyNone THEN DegradedResult(raw) ELSE result

generate_with_schema_NoFallback(raw) == _extract_json(raw).value

\* A gateway that validates: trades whose direction is not LONG or SHORT are
\* dropped from the parsed result.
KnownDirection(trade) ==
    IsDict(trade) /\ DictGet(trade, "direction", PyNone).str \in {"LONG", "SHORT"}

generate_with_schema_ValidTradesOnly(raw) ==
    LET result == OrDegraded(_extract_json(raw).value, raw)
    IN  IF IsDict(result) /\ DictGet(result, "trades", PyNone).kind = "list"
        THEN DictSet(result, "trades",
                     PyList(SelectSeq(DictGet(result, "trades", PyNone).items,
                                      KnownDirection)))
        ELSE result

generate_with_schema(raw) == OrDegraded(_extract_json(raw).value, raw)

\* Raw texts: prose, the marker a failed provider call returns, and every
\* short sequence of the tokens the extraction tiers react to.
NotJson == <<"not", "json">>
LlmErrorMarker == <<"LLM", "Error:", "timed", "out">>
LlmTokens == {"not", "<fence>", "<fence>json", "{", "}", "7", "null"}
MaxResponseLen == 5

LlmIdle ==
    /\ response = <<>>
    /\ extracted = None
    /\ schema_result = None

LlmInit ==
    /\ response \in SeqsUpTo(LlmTokens, MaxResponseLen) \cup {NotJson, LlmErrorMarker}
    /\ extracted = None
    /\ schema_result = None

ExtractJson ==
    /\ extracted = None
    /\ extracted' = Some(_extract_json(response))
    /\ UNCHANGED <<response, schema_result, renderVars, pipeVars, macroVars,
                   gammaVars, extVars, cotVars, entryVars>>

GenerateWithSchema ==
    /\ schema_result = None
    /\ schema_result' = Some(generate_with_schema(response))
    /\ UNCHANGED <<response, extracted, renderVars, pipeVars, macroVars,
                   gammaVars, extVars, cotVars, entryVars>>

-----------------------------------------------------------------------------
(* ReportGenerator._format_trades                                          *)

REQUIRED_TRADE_FIELDS == <<"name", "instrument", "entry", "stop", "target">>

\* [f for f in REQUIRED_TRADE_FIELDS if not trade.get(f)]
missing_fields(trade) ==
    SelectSeq(REQUIRED_TRADE_FIELDS, LAMBDA f : ~PyTruthy(DictGet(trade, f, PyNone)))

\* The lines one rendered trade adds, as the heading's ordinal and the
\* value of each cell.
TradeLines(valid_trade_count, trade) ==
    [ordinal |-> valid_trade_count,
     name |-> DictGet(trade, "name", PyStr("Unnamed Trade")),
     instrument |-> DictGet(trade, "instrument", PyStr("N/A")),
     direction |-> DictGet(trade, "direction", PyStr("N/A")),
     entry |-> DictGet(trade, "entry", PyStr("N/A")),
     stop |-> DictGet(trade, "stop", PyStr("N/A")),
     target |-> DictGet(trade, "target", PyStr("N/A")),
     size_pct |-> DictGet(trade, "size_pct", PyStr("N/A")),
     timeframe |-> DictGet(trade, "timeframe", PyStr("N/A")),
     conviction |-> DictGet(trade, "conviction", PyStr("N/A")),
     catalyst |-> DictGet(trade, "catalyst", PyStr("Not specified")),
     rationale |-> DictGet(trade, "rationale", PyStr("Not specified"))]

SkipWarning(trade) ==
    [missing |-> missing_fields(trade), name |-> DictGet(trade, "name", PyStr("unnamed"))]

StepTrade_CountsSkipped(acc, trade) ==
    IF ~IsDict(trade) THEN acc
    ELSE IF missing_fields(trade) # <<>>
        THEN [acc EXCEPT !.warnings = Append(@, SkipWarning(trade)),
                         !.valid_trade_count = @ + 1]
    ELSE [lines |-> Append(acc.lines, TradeLines(acc.valid_trade_count + 1, trade)),
          valid_trade_count |-> acc.valid_trade_count + 1,
          warnings |-> acc.warnings]

\* One pass of the loop over state.trades.
StepTrade(acc, trade) ==
    IF ~IsDict(trade) THEN acc
    ELSE IF missing_fields(trade) # <<>>
        THEN [acc EXCEPT !.warnings = Append(@, SkipWarning(trade))]
    ELSE [lines |-> Append(acc.lines, TradeLines(acc.valid_trade_count + 1, trade)),
          valid_trade_count |-> acc.valid_trade_count + 1,
          warnings |-> acc.warnings]

RECURSIVE FormatLoop(_, _)
FormatLoop(items, n) ==
    IF n = 0 THEN [lines |-> <<>>, valid_trade_count |-> 0, warnings |-> <<>>]
    ELSE StepTrade(FormatLoop(items, n - 1), items[n])

NoValidTrades == "No valid trade ideas generated."

\* The string returned: the fixed sentence when no trade was rendered,
\* otherwise the joined lines.
JoinLines(acc) ==
    [text |-> IF acc.lines = <<>> THEN NoValidTrades ELSE "",
     lines |-> acc.lines,
     warnings |-> acc.warnings]

_format_trades(state_trades) ==
    JoinLines(FormatLoop(Iterate(state_trades), Len(Iterate(state_trades))))

\* Trades drawn: complete ones, an element that is not a dict, and a trade
\* with one required field absent, null or empty.
Defects(trade) ==
    {DictRemove(trade, REQUIRED_TRADE_FIELDS[i]) : i \in 1..Len(REQUIRED_TRADE_FIELDS)}
        \cup {DictSet(trade, REQUIRED_TRADE_FIELDS[i], PyNone) :
                i \in 1..Len(REQUIRED_TRADE_FIELDS)}
        \cup {DictSet(trade, REQUIRED_TRADE_FIELDS[i], PyStr("")) :
                i \in 1..Len(REQUIRED_TRADE_FIELDS)}

TradeKinds == {TradeA, TradeB, PyStr("see notes")} \cup Defects(TradeA)

MaxTrades == 3

RenderIdle ==
    /\ trades = EmptyPyList
    /\ formatted_trades = None

RenderInit ==
    /\ trades \in {PyList(items) : items \in SeqsUpTo(TradeKinds, MaxTrades)}
    /\ formatted_trades = None

FormatTrades ==
    /\ formatted_trades = None
    /\ formatted_trades' = Some(_format_trades(trades))
    /\ UNCHANGED <<trades, llmVars, pipeVars, macroVars, gammaVars, extVars, cotVars,
                   entryVars>>

-----------------------------------------------------------------------------
(* The specialists of the daily pipeline and the data adapters they call   *)

Adapters == {"fred", "tavily", "cot", "alpha_vantage", "futures"}

\* A source label: the adapter's name and the item it names.
Source(adapter, item) == <<adapter, item>>

Range(s) == {s[i] : i \in 1..Len(s)}

\* strftime("%Y-%m-%d") and strftime("%H:%M:%S") of the clock: the day it
\* is in and the hour of that day.
FormatDate(t) == t \div HoursPerDay
FormatTime(t) == t % HoursPerDay

\* MarketState() constructed at hour t: the fields a run works on.
MarketState(t) ==
    [date |-> FormatDate(t),
     timestamp |-> <<FormatDate(t), FormatTime(t)>>,
     economic_indicators |-> EmptyDict,
     risk_indicators |-> EmptyDict,
     regime_analysis |-> "",
     geopolitical_events |-> <<>>,
     risk_factors |-> EmptyPyList,
     cot_report |-> EmptyDict,
     positioning |-> EmptyDict,
     market_data |-> EmptyDict,
     futures_data |-> EmptyDict,
     futures_positioning |-> EmptyDict,
     gamma_regime |-> EmptyDict,
     key_levels |-> EmptyDict,
     executive_summary |-> PyStr(""),
     regime |-> PyDict(<< <<"label", PyStr("TRANSITIONAL")>>,
                          <<"drivers", EmptyPyList>>,
                          <<"falsifiers", EmptyPyList>> >>),
     trades |-> EmptyPyList,
     positioning_analysis |-> EmptyPyDict,
     data_quality_issues |-> EmptyPyList,
     confidence |-> PyNum(5),
     thesis |-> PyStr(""),
     recommendations |-> EmptyPyList,
     markdown_report |-> None,
     sources |-> <<>>]

NewMarketState == MarketState(StartHour)

Fields == DOMAIN NewMarketState

\* FredClient: the latest observation of each series, in tenths.
SnapshotSeries ==
    <<"GDP", "CPIAUCSL", "UNRATE", "FEDFUNDS", "T10Y2Y", "T10Y3M", "DGS10",
      "DEXUSEU", "DCOILWTICO", "VIXCLS", "BAMLC0A0CM", "BAMLH0A0HYM2">>
RiskIndicatorSeries == <<"VIXCLS", "BAMLC0A0CM", "BAMLH0A0HYM2", "T10Y2Y", "T10Y3M">>

Observations ==
    [s \in Range(SnapshotSeries) |->
        IF s = "GDP" THEN 28 ELSE IF s = "CPIAUCSL" THEN 31
        ELSE IF s = "UNRATE" THEN 41 ELSE IF s = "VIXCLS" THEN 160
        ELSE IF s = "BAMLH0A0HYM2" THEN 31 ELSE IF s = "T10Y2Y" THEN 2
        ELSE 10]

\* get_series: the error dict when the request fails, else the single
\* observation returned (no prior value, so no change).
get_series(series_id, fails) ==
    IF fails
    THEN [series |-> series_id, value |-> None, prior_value |-> None,
          change |-> None, error |-> Some("request failed"),
          source |-> Source("FRED", series_id)]
    ELSE [series |-> series_id, value |-> Some(Observations[series_id]),
          prior_value |-> None, change |-> None, error |-> None,
          source |-> Source("FRED", series_id)]

get_economic_snapshot(fails) ==
    [s \in Range(SnapshotSeries) |-> get_series(s, fails)]

get_risk_indicators(fails) ==
    [s \in Range(RiskIndicatorSeries) |-> get_series(s, fails)]

\* MacroEconomist.analyze
MacroEconomistAnalyze(s, fails) ==
    [s EXCEPT
        !.economic_indicators = get_economic_snapshot(fails),
        !.risk_indicators = get_risk_indicators(fails),
        !.sources = @ \o [i \in 1..Len(SnapshotSeries) |->
                            get_economic_snapshot(fails)[SnapshotSeries[i]].source],
        !.regime_analysis =
            _determine_regime(
                [k \in DataSeries |-> get_economic_snapshot(fails)[k].value],
                [k \in RiskSeries |-> get_risk_indicators(fails)[k].value])]

\* TavilyClient.search_macro_events: one result list per topic.
Topics == <<"fed_policy", "ecb_policy", "china_economy", "geopolitical">>

search(topic, fails) ==
    IF fails
    THEN <<[error |-> Some("request failed"), title |-> None, content |-> None,
            source |-> Source("Tavily API", "")]>>
    ELSE <<[error |-> None, title |-> Some("headline"), content |-> Some("body"),
            source |-> Source("Tavily", topic)]>>

OrEmpty(field) == IF field = None THEN "" ELSE Val(field)

\* The event built from one search result.
Event(topic, result) ==
    [topic |-> topic, title |-> OrEmpty(result.title),
     content |-> OrEmpty(result.content), source |-> result.source]

RECURSIVE EventsOf(_, _)
EventsOf(n, fails) ==
    IF n = 0 THEN <<>>
    ELSE EventsOf(n - 1, fails)
            \o [i \in 1..Len(search(Topics[n], fails)) |->
                    Event(Topics[n], search(Topics[n], fails)[i])]

SourcesOf(events) == [i \in 1..Len(events) |-> events[i].source]

\* GeopoliticalAnalyst.analyze
GeopoliticalAnalystAnalyze(s, fails) ==
    [s EXCEPT
        !.geopolitical_events = EventsOf(Len(Topics), fails),
        !.sources = @ \o SourcesOf(EventsOf(Len(Topics), fails))]

\* The hour of the run, and the feed a reachable CFTC site serves.
PipelineFeed == <<AcceptedGold, AcceptedCrude>>

\* CotClient.get_latest_report on the analyst's new client, with no cache
\* file on disk: the error dict when the feed cannot be fetched.
CotReport(fails) ==
    get_latest_report(EmptyDict, None, NoFile,
                      IF fails THEN None ELSE Some(PipelineFeed),
                      StartHour, TRUE).result

\* CotClient.get_positioning_summary
get_positioning_summary(latest) ==
    IF "error" \in DOMAIN latest THEN [error |-> latest.error]
    ELSE [a \in DOMAIN latest |->
            [positioning |-> latest[a].positioning, signal |-> latest[a].signal,
             spec_net_pct |-> latest[a].spec_net_pct, date |-> latest[a].date,
             source |-> latest[a].source]]

\* The source of the first record of the latest, if it has records.
CotSources(latest) ==
    IF "error" \in DOMAIN latest \/ DOMAIN latest = {} THEN <<>>
    ELSE <<Source("CFTC Commitment of Traders Report", "")>>

\* FlowAnalyst.analyze, given what the client's get_latest_report returns.
FlowAnalystAssign(s, latest) ==
    [s EXCEPT
        !.cot_report = latest,
        !.positioning = get_positioning_summary(latest),
        !.sources = @ \o CotSources(latest)]

\* FlowAnalyst.analyze
FlowAnalystAnalyze(s, fails) == FlowAnalystAssign(s, CotReport(fails))

\* AlphaVantageClient.get_market_overview
Symbols == <<"SPY", "QQQ", "TLT", "GLD", "USO">>

get_quote(symbol, fails) ==
    IF fails
    THEN [symbol |-> symbol, price |-> None, error |-> Some("No data"),
          source |-> Source("Alpha Vantage", "")]
    ELSE [symbol |-> symbol, price |-> Some(1000), error |-> None,
          source |-> Source("Alpha Vantage", symbol)]

get_market_overview(fails) == [y \in Range(Symbols) |-> get_quote(y, fails)]

\* CommoditySpecialist.analyze
CommoditySpecialistAnalyze(s, fails) ==
    [s EXCEPT
        !.market_data = get_market_overview(fails),
        !.sources = @ \o [i \in 1..Len(Symbols) |->
                            get_market_overview(fails)[Symbols[i]].source]]

\* FuturesDataClient.get_futures_overview: the contracts of each group and
\* the close and change Yahoo reports for them, in tenths.
EquitySymbols == <<"ES", "NQ", "YM", "RTY">>
TreasurySymbols == <<"ZN", "ZB", "ZF", "ZT">>
CommoditySymbols == <<"GC", "SI", "CL", "NG">>
VolatilitySymbols == <<"VIX">>

YahooClose(symbol) ==
    IF symbol = "ES" THEN 58000 ELSE IF symbol = "ZN" THEN 1100
    ELSE IF symbol = "GC" THEN 27500 ELSE IF symbol = "CL" THEN 700
    ELSE IF symbol = "VIX" THEN 160 ELSE 1000

_get_yahoo_futures(symbols, fails) ==
    [y \in Range(symbols) |->
        IF fails
        THEN [symbol |-> y, price |-> None, change |-> None,
              error |-> Some("request failed"), source |-> Source("Yahoo Finance", y)]
        ELSE [symbol |-> y, price |-> Some(YahooClose(y)), change |-> Some(12),
              error |-> None, source |-> Source("Yahoo Finance", y)]]

get_futures_overview(fails) ==
    [equity_index |-> _get_yahoo_futures(EquitySymbols, fails),
     treasury |-> _get_yahoo_futures(TreasurySymbols, fails),
     commodities |-> _get_yahoo_futures(CommoditySymbols, fails),
     volatility |-> _get_yahoo_futures(VolatilitySymbols, fails)]

\* round(a / b)
RoundDiv(a, b) == (2 * a + b) \div (2 * b)

\* _calculate_key_levels: bands around the price, or the fixed defaults when
\* the price is missing.  ES levels are whole points, ZN levels tenths.
_calculate_key_levels(futures_data) ==
    [ES_support |->
        IF Truthy(futures_data.equity_index["ES"].price)
        THEN [i \in 1..3 |->
                RoundDiv(Val(futures_data.equity_index["ES"].price) * (100 - 2 * i), 1000)]
        ELSE <<5800, 5750, 5700>>,
     ES_resistance |->
        IF Truthy(futures_data.equity_index["ES"].price)
        THEN [i \in 1..3 |->
                RoundDiv(Val(futures_data.equity_index["ES"].price) * (100 + 2 * i), 1000)]
        ELSE <<5900, 5950, 6000>>,
     ES_current |->
        IF Truthy(futures_data.equity_index["ES"].price)
        THEN futures_data.equity_index["ES"].price ELSE None,
     ZN_support |->
        IF Truthy(futures_data.treasury["ZN"].price)
        THEN [i \in 1..3 |->
                RoundDiv(Val(futures_data.treasury["ZN"].price) * (100 - i), 100)]
        ELSE <<1080, 1060, 1040>>,
     ZN_resistance |->
        IF Truthy(futures_data.treasury["ZN"].price)
        THEN [i \in 1..3 |->
                RoundDiv(Val(futures_data.treasury["ZN"].price) * (100 + i), 100)]
        ELSE <<1120, 1140, 1160>>,
     ZN_current |->
        IF Truthy(futures_data.treasury["ZN"].price)
        THEN futures_data.treasury["ZN"].price ELSE None,
     VIX_current |->
        IF Truthy(futures_data.volatility["VIX"].price)
        THEN futures_data.volatility["VIX"].price ELSE None,
     VIX_support |-> 140,
     VIX_resistance |-> 220]

\* _get_sentiment: decided by the first contract with a price and a change.
_get_sentiment(market_data, symbols) ==
    LET priced == {i \in 1..Len(symbols) :
                     /\ Truthy(market_data[symbols[i]].price)
                     /\ market_data[symbols[i]].change # None}
    IN  IF priced = {} THEN "NEUTRAL"
        ELSE IF Val(market_data[symbols[Min(priced)]].change) > 5 THEN "BULLISH"
        ELSE IF Val(market_data[symbols[Min(priced)]].change) < -5 THEN "BEARISH"
        ELSE "NEUTRAL"

_analyze_treasury_positioning(treasury_data) ==
    IF treasury_data["ZN"].price = None THEN "NEUTRAL"
    ELSE IF Val(treasury_data["ZN"].price) < 1080 THEN "BEARISH_BIAS"
    ELSE IF Val(treasury_data["ZN"].price) > 1120 THEN "BULLISH_BIAS"
    ELSE "NEUTRAL"

\* _analyze_commodity_positioning: the gold and crude signals, in order.
_analyze_commodity_positioning(commodity_data) ==
    (IF Truthy(commodity_data["GC"].price) /\ Val(commodity_data["GC"].price) > 27000
        THEN <<"GOLD_BULLISH">>
     ELSE IF Truthy(commodity_data["GC"].price) /\ Val(commodity_data["GC"].price) < 24000
        THEN <<"GOLD_BEARISH">>
     ELSE <<>>)
    \o (IF Truthy(commodity_data["CL"].price) /\ Val(commodity_data["CL"].price) > 750
            THEN <<"CRUDE_BULLISH">>
        ELSE IF Truthy(commodity_data["CL"].price) /\ Val(commodity_data["CL"].price) < 650
            THEN <<"CRUDE_BEARISH">>
        ELSE <<>>)

\* The gamma analysis of the run: the VIX close, and no realized-volatility
\* reading.
MarketGamma(fails) ==
    get_market_gamma(get_futures_overview(fails).volatility["VIX"].price, None)

\* get_futures_positioning; the seasonality entry, a function of the
\* calendar month alone, is left out.
get_futures_positioning(fails) ==
    [equity_index_sentiment |->
        _get_sentiment(get_futures_overview(fails).equity_index, EquitySymbols),
     treasury_positioning |->
        _analyze_treasury_positioning(get_futures_overview(fails).treasury),
     commodity_positioning |->
        _analyze_commodity_positioning(get_futures_overview(fails).commodities),
     currency_positioning |-> "NEUTRAL",
     dealer_gamma |-> MarketGamma(fails).dealer_positioning,
     gamma_regime |-> MarketGamma(fails).gamma_regime,
     key_levels |-> _calculate_key_levels(get_futures_overview(fails)),
     gamma_notes |-> MarketGamma(fails).notes]

\* FuturesSpecialist.analyze: futures_data first holds the overview and is
\* then overwritten with the gamma analysis.
FuturesSpecialistAnalyze(s, fails) ==
    [[s EXCEPT !.futures_data = get_futures_overview(fails)] EXCEPT
        !.futures_positioning = get_futures_positioning(fails),
        !.gamma_regime = MarketGamma(fails),
        !.futures_data = MarketGamma(fails),
        !.key_levels = get_futures_positioning(fails).key_levels]

-----------------------------------------------------------------------------
(* The requests each specialist issues at the collaborator boundary        *)

\* The boundary calls: one per economic series, search topic and quote
\* symbol, the positioning feed, the futures overview and the model call.
BoundaryCalls ==
    Range(SnapshotSeries) \cup Range(Topics) \cup Range(Symbols)
        \cup {"positioning_feed", "futures_overview", "generate_text"}

NoRequests == [c \in BoundaryCalls |-> 0]

Occurrences(calls, c) == Cardinality({i \in 1..Len(calls) : calls[i] = c})

\* The counts after the calls of one stage have been issued.
Issue(counts, calls) ==
    [c \in BoundaryCalls |-> counts[c] + Occurrences(calls, c)]

\* MacroEconomist.analyze: get_economic_snapshot requests each of its
\* series, then get_risk_indicators requests each of its own.
MacroEconomistCalls == SnapshotSeries \o RiskIndicatorSeries

\* GeopoliticalAnalyst.analyze: search_macro_events, one search per topic.
GeopoliticalAnalystCalls == Topics

\* The analyst's CotClient before its first call.
NewCotClient == [cache |-> EmptyDict, ts |-> None, disk |-> NoFile]

\* One get_latest_report call on the client during the run.
CotCall(client, fails) ==
    get_latest_report(client.cache, client.ts, client.disk,
                      IF fails THEN None ELSE Some(PipelineFeed),
                      StartHour, TRUE)

\* FlowAnalyst.analyze calls get_latest_report, get_positioning_summary and
\* get_crowded_trades; each of the three runs get_latest_report.
FlowReportCalls == 3

\* The result of the n-th of these calls.
RECURSIVE CotCallNo(_, _)
CotCallNo(n, fails) ==
    IF n = 1 THEN CotCall(NewCotClient, fails)
    ELSE CotCall([cache |-> CotCallNo(n - 1, fails).cache,
                  ts |-> CotCallNo(n - 1, fails).ts,
                  disk |-> CotCallNo(n - 1, fails).disk], fails)

RECURSIVE FeedFetches(_, _)
FeedFetches(n, fails) ==
    IF n = 0 THEN <<>>
    ELSE FeedFetches(n - 1, fails)
            \o (IF CotCallNo(n, fails).fetched THEN <<"positioning_feed">> ELSE <<>>)

FlowAnalystCalls(fails) == FeedFetches(FlowReportCalls, fails)

\* CommoditySpecialist.analyze: get_market_overview, one quote per symbol.
CommoditySpecialistCalls == Symbols

\* get_market_gamma starts with get_futures_overview.
MarketGammaCalls == <<"futures_overview">>

\* get_futures_positioning: get_futures_overview, then get_market_gamma.
FuturesPositioningCalls == <<"futures_overview">> \o MarketGammaCalls

\* FuturesSpecialist.analyze: get_futures_overview, get_futures_positioning
\* and get_market_gamma.
FuturesSpecialistCalls ==
    <<"futures_overview">> \o FuturesPositioningCalls \o MarketGammaCalls

\* SynthesisAgent.synthesize: one generate call of the gateway.
SynthesisCalls == <<"generate_text">>

-----------------------------------------------------------------------------
(* SynthesisAgent.synthesize and ReportGenerator.generate_daily            *)

DefaultRegime ==
    PyDict(<< <<"label", PyStr("TRANSITIONAL")>>, <<"drivers", EmptyPyList>>,
              <<"falsifiers", EmptyPyList>> >>)

\* A list of the elements of a set, in the order iteration yields them.
RECURSIVE ListOfSet(_)
ListOfSet(S) ==
    IF S = {} THEN <<>>
    ELSE LET x == CHOOSE y \in S : TRUE
         IN  <<x>> \o ListOfSet(S \ {x})

\* The list left as it is.
list_set_Unchanged(xs) == xs

\* list(set(xs)): the distinct elements of xs; their order is whatever set
\* iteration gives.
list_set(xs) == ListOfSet(Range(xs))

\* The fields synthesize copies from the gateway's result.
AssignResult(s, result) ==
    [s EXCEPT
        !.executive_summary = DictGet(result, "executive_summary", PyStr("")),
        !.regime = DictGet(result, "regime", DefaultRegime),
        !.trades = DictGet(result, "trades", EmptyPyList),
        !.positioning_analysis = DictGet(result, "positioning_analysis", EmptyPyDict),
        !.risk_factors = DictGet(result, "risk_factors", EmptyPyList),
        !.confidence = DictGet(result, "confidence", PyNum(5)),
        !.data_quality_issues = DictGet(result, "data_quality_issues", EmptyPyList),
        !.thesis = DictGet(result, "executive_summary", PyStr("")),
        !.recommendations = DictGet(result, "trades", EmptyPyList),
        !.sources = list_set(@)]

\* The exception raised by the summary lines printed after synthesis and at
\* the end of the run: regime.get, len(trades), confidence formatted as %.
SummaryError(s) ==
    IF ~IsDict(s.regime) THEN Some("AttributeError: regime has no get")
    ELSE IF ~Iterable(s.trades) THEN Some("TypeError: trades has no len")
    ELSE IF s.confidence.kind # "num" THEN Some("TypeError: confidence format")
    ELSE None

\* synthesize: the state it leaves and the exception it raises, if any.
synthesize(s, result) ==
    IF ~IsDict(result)
    THEN [state |-> s, raised |-> Some("AttributeError: result has no get")]
    ELSE [state |-> AssignResult(s, result),
          raised |-> SummaryError(AssignResult(s, result))]

RiskRows == <<"VIXCLS", "BAMLC0A0CM", "BAMLH0A0HYM2", "T10Y2Y", "T10Y3M">>

_get_risk_signal(series_id, value, change) ==
    IF value = None THEN "-"
    ELSE IF series_id = "VIXCLS"
        THEN IF Val(value) > 250 THEN "HIGH FEAR"
             ELSE IF Val(value) > 180 THEN "ELEVATED"
             ELSE IF Val(value) < 120 THEN "COMPLACENT"
             ELSE "NORMAL"
    ELSE IF series_id \in {"BAMLC0A0CM", "BAMLH0A0HYM2"}
        THEN IF Truthy(change) /\ Val(change) > 1 THEN "WIDENING"
             ELSE IF Truthy(change) /\ Val(change) < -1 THEN "TIGHTENING"
             ELSE "STABLE"
    ELSE IF Val(value) < 0 THEN "INVERTED"
    ELSE IF 4 * Val(value) < 10 THEN "FLAT"
    ELSE "NORMAL"

\* One row of the risk dashboard.
RiskRow(series_id, indicators) ==
    IF series_id \notin DOMAIN indicators \/ indicators[series_id].error # None
    THEN [indicator |-> series_id, value |-> None, signal |-> "-"]
    ELSE [indicator |-> series_id, value |-> indicators[series_id].value,
          signal |-> _get_risk_signal(series_id, indicators[series_id].value,
                                      indicators[series_id].change)]

_format_risk_dashboard(s) ==
    [i \in 1..Len(RiskRows) |-> RiskRow(RiskRows[i], s.risk_indicators)]

NoPositioning == "| No positioning data available | - | - | - | - |"

\* The rows of the positioning table: the model's analysis when it gave
\* one, else the adapter's summary; entries that are not dicts are skipped.
TableRows(positioning) ==
    IF "error" \in DOMAIN positioning THEN EmptyDict
    ELSE [a \in DOMAIN positioning |->
            [net_pct |-> positioning[a].spec_net_pct, percentile |-> "-",
             wow |-> "-", signal |-> positioning[a].signal]]

_format_positioning_table(s) ==
    IF PyTruthy(s.positioning_analysis)
    THEN [rows |-> s.positioning_analysis, note |-> ""]
    ELSE [rows |-> TableRows(s.positioning),
          note |-> IF DOMAIN TableRows(s.positioning) = {}
                   THEN NoPositioning ELSE ""]

\* record.get(name, default) on an adapter's dict.
Field(record, name, default) ==
    IF name \in DOMAIN record THEN record[name] ELSE default

\* The same for an entry the adapter sets only when it has a price.
PriceField(record, name, default) ==
    IF name \in DOMAIN record /\ record[name] # None THEN record[name] ELSE default

_format_futures_levels(s) ==
    [gamma_regime |-> Field(s.gamma_regime, "gamma_regime", NEUTRAL),
     sput_risk |-> Field(s.gamma_regime, "sput_risk", "LOW"),
     es_current |-> PriceField(s.key_levels, "ES_current",
                          Some(10 * Field(s.key_levels, "ES_support", <<5800>>)[1])),
     es_support |-> Field(s.key_levels, "ES_support", <<5800, 5750, 5700>>),
     es_resistance |-> Field(s.key_levels, "ES_resistance", <<5900, 5950, 6000>>),
     zn_current |-> PriceField(s.key_levels, "ZN_current",
                          Some(Field(s.key_levels, "ZN_support", <<1080>>)[1])),
     zn_support |-> Field(s.key_levels, "ZN_support", <<1080, 1060, 1040>>),
     zn_resistance |-> Field(s.key_levels, "ZN_resistance", <<1120, 1140, 1160>>),
     vix_current |-> PriceField(s.key_levels, "VIX_current", Some(155)),
     equity_sentiment |-> Field(s.futures_positioning, "equity_index_sentiment",
                                "NEUTRAL"),
     treasury_sentiment |-> "NEUTRAL"]

\* The first exception generate_daily raises on this state, if any.
RenderError(s) ==
    IF ~IsDict(s.regime) THEN Some("AttributeError: regime has no get")
    ELSE IF ~Iterable(DictGet(s.regime, "drivers", EmptyPyList))
        THEN Some("TypeError: drivers not iterable")
    ELSE IF PyTruthy(s.positioning_analysis) /\ ~IsDict(s.positioning_analysis)
        THEN Some("AttributeError: positioning has no items")
    ELSE IF ~Iterable(s.trades) THEN Some("TypeError: trades not iterable")
    ELSE IF s.risk_factors.kind # "list"
        THEN Some("TypeError: risk_factors not sliceable")
    ELSE IF PyTruthy(DictGet(s.regime, "falsifiers", EmptyPyList))
            /\ ~Iterable(DictGet(s.regime, "falsifiers", EmptyPyList))
        THEN Some("TypeError: falsifiers not iterable")
    ELSE IF s.confidence.kind # "num" THEN Some("TypeError: confidence * 10")
    ELSE IF PyTruthy(s.data_quality_issues) /\ ~Iterable(s.data_quality_issues)
        THEN Some("TypeError: join")
    ELSE None

FirstFive(items) == SubSeq(items, 1, IF Len(items) < 5 THEN Len(items) ELSE 5)

\* The parts of the markdown report, section by section; the title carries
\* the date and the second line the time of day of the call.
Report(s, t) ==
    [title |-> FormatDate(t),
     generated |-> FormatTime(t),
     executive_summary |-> IF PyTruthy(s.executive_summary) THEN s.executive_summary
                           ELSE PyStr("Analysis pending."),
     regime |-> DictGet(s.regime, "label", PyStr("TRANSITIONAL")),
     drivers |-> Iterate(DictGet(s.regime, "drivers", EmptyPyList)),
     risk_dashboard |-> _format_risk_dashboard(s),
     positioning |-> _format_positioning_table(s),
     futures_levels |-> _format_futures_levels(s),
     trade_ideas |-> _format_trades(s.trades),
     risk_factors |-> FirstFive(s.risk_factors.items),
     falsifiers |-> DictGet(s.regime, "falsifiers", EmptyPyList),
     confidence |-> s.confidence.num * 10,
     data_quality_issues |-> IF PyTruthy(s.data_quality_issues)
                             THEN s.data_quality_issues ELSE PyStr("None")]

\* A store that keeps the file of a date once it exists.
_save_report_KeepFirst(files, content, date) ==
    IF date \in DOMAIN files THEN files ELSE Put(files, date, content)

\* _save_report(content, "daily", date): the file of that date is opened
\* for writing and holds the content afterwards.
_save_report(files, content, date) == Put(files, date, content)

\* generate_daily called at hour t: the state it leaves, the exception it
\* raises, and reports/daily afterwards.
generate_daily(s, t, files) ==
    IF RenderError(s) # None
    THEN [state |-> s, raised |-> RenderError(s), saved |-> files]
    ELSE [state |-> [s EXCEPT !.markdown_report = Some(Report(s, t))],
          raised |-> None, saved |-> _save_report(files, Report(s, t), s.date)]

-----------------------------------------------------------------------------
(* Oracle.run_daily_brief                                                  *)

\* A JSON object with each of five members absent, null or well-formed.
MemberStates == {"missing", "null", "valid"}

Member(key, text, member_state) ==
    IF member_state = "missing" THEN <<>>
    ELSE IF member_state = "null" THEN <<key, "null">>
    ELSE <<key, text>>

ObjectText(confidence, regime, trade_list, issues, risks) ==
    <<"{">> \o Member("\"confidence\":", "0.8", confidence)
        \o Member("\"regime\":", RegimeText, regime)
        \o Member("\"trades\":", TradesText, trade_list)
        \o Member("\"data_quality_issues\":", IssuesText, issues)
        \o Member("\"risk_factors\":", RisksText, risks)
        \o <<"}">>

\* What the provider call may hand back to the synthesis stage.
PipelineResponses ==
    {NotJson, LlmErrorMarker, <<"7">>, <<"null">>, <<"[]">>,
     <<"{", "\"confidence\":", "0.8", "\"trades\":", WildTradesText, "}">>}
        \cup {ObjectText(c, r, t, q, k) :
                c \in MemberStates, r \in MemberStates, t \in MemberStates,
                q \in MemberStates, k \in MemberStates}

\* A different order: synthesis called before the futures specialist.
DailyStages_SynthesisBeforeFutures ==
    <<"economic", "geopolitical", "flow", "market", "synthesis", "futures", "render">>

\* The stages of each entry point, in the order its body calls them.
DailyStages ==
    <<"economic", "geopolitical", "flow", "market", "futures", "synthesis", "render">>
ResearchStages == <<"economic", "flow", "synthesis">>

StagesOf(e) == IF e = "daily" THEN DailyStages ELSE ResearchStages

\* The stage the entry point calls after `stage` has returned.
Successor(e, stage) ==
    LET i == Min({k \in 1..Len(StagesOf(e)) : StagesOf(e)[k] = stage})
    IN  IF i = Len(StagesOf(e)) THEN "done" ELSE StagesOf(e)[i + 1]

\* The fields each stage assigns or appends to.
MacroEconomistWrites ==
    {"economic_indicators", "risk_indicators", "sources", "regime_analysis"}
GeopoliticalAnalystWrites(fails) ==
    {"geopolitical_events"}
        \cup (IF SourcesOf(EventsOf(Len(Topics), fails)) # <<>> THEN {"sources"} ELSE {})
FlowAnalystWrites(fails) ==
    {"cot_report", "positioning"}
        \cup (IF CotSources(CotReport(fails)) # <<>> THEN {"sources"} ELSE {})
CommoditySpecialistWrites == {"market_data", "sources"}
FuturesSpecialistWrites(fails) ==
    {"futures_data", "futures_positioning", "gamma_regime"}
        \cup (IF "key_levels" \in DOMAIN get_futures_positioning(fails)
              THEN {"key_levels"} ELSE {})
SynthesisWrites(result) ==
    IF ~IsDict(result) THEN {}
    ELSE {"executive_summary", "regime", "trades", "positioning_analysis",
          "risk_factors", "confidence", "data_quality_issues", "thesis",
          "recommendations", "sources"}
RenderWrites(s) == IF RenderError(s) # None THEN {} ELSE {"markdown_report"}

\* The keyword arguments synthesize hands to synthesize_research.
SynthesisInput(s) ==
    [economic_data |-> s.economic_indicators,
     geopolitical_events |-> s.geopolitical_events,
     positioning_data |-> s.positioning,
     commodity_data |-> s.market_data,
     market_data |-> s.risk_indicators,
     futures_data |-> s.futures_data,
     futures_positioning |-> s.futures_positioning,
     gamma_regime |-> s.gamma_regime,
     key_levels |-> s.key_levels]

NoWriters == [f \in Fields |-> <<>>]

\* The writers after `stage` has written the fields `written_fields`.
Wrote(w, stage, written_fields) ==
    [f \in Fields |-> IF f \in written_fields THEN Append(w[f], stage) ELSE w[f]]

AuditIdle ==
    /\ entry = "daily"
    /\ requests = NoRequests
    /\ stages = <<>>
    /\ writers = NoWriters
    /\ synthesis_input = None

PipeIdle ==
    /\ pc = "idle"
    /\ state = NewMarketState
    /\ failing = [a \in Adapters |-> FALSE]
    /\ run_error = None
    /\ reports = EmptyDict
    /\ saves = EmptyDict
    /\ AuditIdle

\* A constructed Oracle about to run; each adapter's requests either all
\* fail during the run or all succeed.
PipeInit ==
    /\ pc = "economic"
    /\ state = NewMarketState
    /\ failing \in [Adapters -> BOOLEAN]
    /\ run_error = None
    /\ reports = EmptyDict
    /\ saves = EmptyDict
    /\ AuditIdle

SavesOf(counts, date) == IF date \in DOMAIN counts THEN counts[date] ELSE 0

\* What every data stage leaves alone.
DataStageFrame ==
    UNCHANGED <<failing, run_error, reports, saves, entry, synthesis_input, llmVars,
                renderVars, macroVars, gammaVars, extVars, cotVars, entryVars>>

EconomicStage ==
    /\ pc = "economic"
    /\ state' = MacroEconomistAnalyze(state, failing["fred"])
    /\ pc' = Successor(entry, "economic")
    /\ requests' = Issue(requests, MacroEconomistCalls)
    /\ stages' = Append(stages, "economic")
    /\ writers' = Wrote(writers, "economic", MacroEconomistWrites)
    /\ DataStageFrame

GeopoliticalStage ==
    /\ pc = "geopolitical"
    /\ state' = GeopoliticalAnalystAnalyze(state, failing["tavily"])
    /\ pc' = Successor(entry, "geopolitical")
    /\ requests' = Issue(requests, GeopoliticalAnalystCalls)
    /\ stages' = Append(stages, "geopolitical")
    /\ writers' = Wrote(writers, "geopolitical",
                        GeopoliticalAnalystWrites(failing["tavily"]))
    /\ DataStageFrame

FlowStage ==
    /\ pc = "flow"
    /\ state' = FlowAnalystAnalyze(state, failing["cot"])
    /\ pc' = Successor(entry, "flow")
    /\ requests' = Issue(requests, FlowAnalystCalls(failing["cot"]))
    /\ stages' = Append(stages, "flow")
    /\ writers' = Wrote(writers, "flow", FlowAnalystWrites(failing["cot"]))
    /\ DataStageFrame

MarketStage ==
    /\ pc = "market"
    /\ state' = CommoditySpecialistAnalyze(state, failing["alpha_vantage"])
    /\ pc' = Successor(entry, "market")
    /\ requests' = Issue(requests, CommoditySpecialistCalls)
    /\ stages' = Append(stages, "market")
    /\ writers' = Wrote(writers, "market", CommoditySpecialistWrites)
    /\ DataStageFrame

FuturesStage ==
    /\ pc = "futures"
    /\ state' = FuturesSpecialistAnalyze(state, failing["futures"])
    /\ pc' = Successor(entry, "futures")
    /\ requests' = Issue(requests, FuturesSpecialistCalls)
    /\ stages' = Append(stages, "futures")
    /\ writers' = Wrote(writers, "futures", FuturesSpecialistWrites(failing["futures"]))
    /\ DataStageFrame

\* synthesize with the provider handing back one of `texts`: the gateway's
\* result is copied into the state; an exception ends the run.
Synthesis(texts) ==
    /\ pc = "synthesis"
    /\ \E text \in texts :
        \E out \in {synthesize(state, generate_with_schema(text))} :
            /\ response' = text
            /\ schema_result' = Some(generate_with_schema(text))
            /\ synthesis_input' = Some(SynthesisInput(state))
            /\ state' = out.state
            /\ run_error' = out.raised
            /\ pc' = IF out.raised = None THEN Successor(entry, "synthesis")
                     ELSE "aborted"
            /\ writers' = Wrote(writers, "synthesis",
                                SynthesisWrites(generate_with_schema(text)))
    /\ requests' = Issue(requests, SynthesisCalls)
    /\ stages' = Append(stages, "synthesis")
    /\ UNCHANGED <<extracted, failing, reports, saves, entry, renderVars, macroVars,
                   gammaVars, extVars, cotVars, entryVars>>

\* Step 6, first half.
SynthesisStage == Synthesis(PipelineResponses)

\* Step 6, second half: the report is rendered and saved, then the summary
\* lines are printed.
RenderStage ==
    /\ pc = "render"
    /\ \E out \in {generate_daily(state, now, reports)} :
        /\ state' = out.state
        /\ reports' = out.saved
        /\ saves' = IF out.raised # None THEN saves
                    ELSE Put(saves, state.date, SavesOf(saves, state.date) + 1)
        /\ run_error' = IF out.raised # None THEN out.raised
                        ELSE SummaryError(out.state)
        /\ pc' = IF out.raised = None /\ SummaryError(out.state) = None
                 THEN Successor(entry, "render") ELSE "aborted"
    /\ stages' = Append(stages, "render")
    /\ writers' = Wrote(writers, "render", RenderWrites(state))
    /\ UNCHANGED <<failing, entry, requests, synthesis_input, llmVars, renderVars,
                   macroVars, gammaVars, extVars, cotVars, entryVars>>


-----------------------------------------------------------------------------
(* Oracle: construction and the two entry points                           *)

\* An API key is the empty string when its environment variable is unset.
KeyValues == {"", "key"}
Providers == {"anthropic", "openai"}

NoSettings ==
    [fred_api_key |-> "", tavily_api_key |-> "", alpha_vantage_api_key |-> "",
     anthropic_api_key |-> "", openai_api_key |-> "", llm_provider |-> "anthropic"]

AllSettings ==
    [fred_api_key : KeyValues, tavily_api_key : KeyValues,
     alpha_vantage_api_key : KeyValues, anthropic_api_key : KeyValues,
     openai_api_key : KeyValues, llm_provider : Providers]

\* a or b on two strings
Or(a, b) == IF a # "" THEN a ELSE b

\* The ValueError of the first client constructor that finds its key empty,
\* in the order Oracle.__init__ builds the specialists; None if all pass.
ConstructionError(cfg) ==
    IF cfg.fred_api_key = "" THEN Some("FRED API key is required")
    ELSE IF cfg.tavily_api_key = "" THEN Some("Tavily API key is required")
    ELSE IF cfg.alpha_vantage_api_key = ""
        THEN Some("Alpha Vantage API key is required")
    ELSE IF Or(cfg.anthropic_api_key, cfg.openai_api_key) = ""
        THEN Some("LLM API key is required")
    ELSE None

NoOracle == [constructed |-> FALSE, error |-> None]

\* Oracle(): the object exists unless a constructor raised.
Oracle__init__(cfg) ==
    [constructed |-> ConstructionError(cfg) = None, error |-> ConstructionError(cfg)]

\* The most entry-point calls made on one Oracle.
MaxRuns == 2

\* The hours at which calls are made: the start, an hour later, a day later.
RunHours == {StartHour, StartHour + 1, StartHour + HoursPerDay}

\* The adapters' behaviour during a run and the provider's replies.
RunFailures == {[a \in Adapters |-> FALSE]}
OracleResponses ==
    {ObjectText("valid", "valid", "valid", "valid", "valid"), NotJson, <<"[]">>}

Finished == pc \in {"idle", "done", "aborted"}

EntryIdle ==
    /\ settings = NoSettings
    /\ oracle = NoOracle
    /\ runs = 0
    /\ rendered = <<>>

OracleInit ==
    /\ settings \in AllSettings
    /\ oracle = NoOracle
    /\ runs = 0
    /\ rendered = <<>>

Construct ==
    /\ oracle = NoOracle
    /\ oracle' = Oracle__init__(settings)
    /\ UNCHANGED <<settings, runs, rendered, llmVars, renderVars, pipeVars,
                   macroVars, gammaVars, extVars, cotVars>>

\* The first lines of an entry point: a new MarketState, nothing requested,
\* started or written yet.
Enter(e) ==
    /\ oracle.constructed
    /\ Finished
    /\ runs < MaxRuns
    /\ runs' = runs + 1
    /\ entry' = e
    /\ pc' = StagesOf(e)[1]
    /\ state' = MarketState(now)
    /\ failing' \in RunFailures
    /\ run_error' = None
    /\ requests' = NoRequests
    /\ stages' = <<>>
    /\ writers' = NoWriters
    /\ synthesis_input' = None
    /\ response' = <<>>
    /\ extracted' = None
    /\ schema_result' = None
    /\ UNCHANGED <<reports, saves, settings, oracle, rendered, renderVars,
                   macroVars, gammaVars, extVars, cotVars>>

RunDailyBrief == Enter("daily")

RunResearch == Enter("research")

OracleSynthesis == Synthesis(OracleResponses)

\* Time passes between calls.
Tick ==
    /\ Finished
    /\ \E t \in RunHours :
        /\ t > now
        /\ now' = t
    /\ UNCHANGED <<rowVars, clientVars, cache_valid, macroVars, gammaVars, extVars,
                   synthVars>>

-----------------------------------------------------------------------------
(* ReportGenerator.generate_daily called repeatedly on one aggregate state  *)

\* The state the five data stages leave.
AfterData(fails) ==
    FuturesSpecialistAnalyze(
        CommoditySpecialistAnalyze(
            FlowAnalystAnalyze(
                GeopoliticalAnalystAnalyze(
                    MacroEconomistAnalyze(NewMarketState, fails["fred"]),
                    fails["tavily"]),
                fails["cot"]),
            fails["alpha_vantage"]),
        fails["futures"])

\* The states synthesize returns without raising.
RenderInputs ==
    {synthesize(AfterData(f), generate_with_schema(text)).state :
        f \in {[a \in Adapters |-> FALSE], [a \in Adapters |-> TRUE]},
        text \in {x \in PipelineResponses :
                    synthesize(NewMarketState, generate_with_schema(x)).raised = None}}

\* The most calls made on the state.
MaxRenderings == 2

ReportInit ==
    /\ pc = "idle"
    /\ state \in RenderInputs
    /\ failing = [a \in Adapters |-> FALSE]
    /\ run_error = None
    /\ reports = EmptyDict
    /\ saves = EmptyDict
    /\ AuditIdle
    /\ EntryIdle

\* generate_daily on a copy of `state`: the copy's report and the exception
\* are recorded, the file of the state's date is written.
GenerateDaily ==
    /\ Len(rendered) < MaxRenderings
    /\ \E out \in {generate_daily(state, now, reports)} :
        /\ rendered' = Append(rendered, [at |-> now, raised |-> out.raised,
                                         report |-> out.state.markdown_report])
        /\ reports' = out.saved
        /\ saves' = IF out.raised # None THEN saves
                    ELSE Put(saves, state.date, SavesOf(saves, state.date) + 1)
    /\ UNCHANGED <<pc, state, failing, run_error, auditVars, settings, oracle, runs,
                   llmVars, renderVars, macroVars, gammaVars, extVars, cotVars>>

SynthIdle == LlmIdle /\ RenderIdle /\ PipeIdle /\ EntryIdle

-----------------------------------------------------------------------------
(* Database: the research cache (table research_cache)                     *)

\* The keys, values and lifetimes the callers use; a lifetime in hours is
\* ttl_seconds / 3600.
CacheKeys == {"fed", "opec"}
CacheValues == {[summary |-> "hawkish"], [summary |-> "dovish"]}
TtlHours == {1, 48}

\* The hours (UTC, since midnight of day 0) at which calls are made.
DbMoments == {0, 1, 2, 24, 48}

\* The offsets of the machine's local time from UTC, in hours.
UtcOffsets == {0 - 5, 0, 9}

\* json.dumps and json.loads on a cached value (value_json).
value_dumps(v) == <<"{", "\"summary\":", v.summary, "}">>
value_loads(text) == [summary |-> text[3]]

\* datetime.now().isoformat(): local time, date and time joined by "T".
isoformat(utc, offset) ==
    [date |-> (utc + offset + HoursPerDay) \div HoursPerDay,
     sep |-> "T", hour |-> (utc + offset + HoursPerDay) % HoursPerDay]

\* SQLite's datetime('now'): UTC, date and time joined by a space.
datetime_now(utc) ==
    [date |-> (utc + HoursPerDay) \div HoursPerDay, sep |-> " ", hour |-> utc % HoursPerDay]

\* a > b on two such texts: SQLite compares TEXT byte by byte, so the date
\* decides, then the separator ("T" sorts after " "), then the time.
SepRank(sep) == IF sep = "T" THEN 1 ELSE 0

TextGreater(a, b) ==
    \/ a.date > b.date
    \/ a.date = b.date /\ SepRank(a.sep) > SepRank(b.sep)
    \/ a.date = b.date /\ a.sep = b.sep /\ a.hour > b.hour

NoCalls == [k \in CacheKeys |-> None]

DbIdle ==
    /\ research_cache = EmptyDict
    /\ db_now = [utc |-> 0, offset |-> 0]
    /\ last_set = NoCalls
    /\ last_get = None

\* An empty table on a machine in one of the time zones.
DbInit ==
    /\ research_cache = EmptyDict
    /\ db_now \in [utc : {0}, offset : UtcOffsets]
    /\ last_set = NoCalls
    /\ last_get = None

\* The row cache_set writes: expires_at is the time of the call.
CacheRow(value, ttl, t) ==
    [value |-> value_dumps(value), ttl_seconds |-> ttl * 3600,
     created_at |-> isoformat(t.utc, t.offset),
     expires_at |-> isoformat(t.utc, t.offset)]

\* Database.cache_set: INSERT OR REPLACE on the unique key.
cache_set ==
    \E key \in CacheKeys, value \in CacheValues, ttl \in TtlHours :
        /\ research_cache' = Put(research_cache, key, CacheRow(value, ttl, db_now))
        /\ last_set' = [last_set EXCEPT
                            ![key] = Some([value |-> value, ttl |-> ttl, at |-> db_now.utc])]
        /\ UNCHANGED <<db_now, last_get, concVars, schedVars, macroVars, gammaVars,
                       cotVars, synthVars>>

\* The rows the SELECT of cache_get matches.
SelectUnexpired(table, key, t) ==
    IF key \in DOMAIN table /\ TextGreater(table[key].expires_at, datetime_now(t.utc))
    THEN <<table[key]>> ELSE <<>>

\* Database._cleanup_cache
_cleanup_cache(table, t) ==
    [k \in {j \in DOMAIN table : ~TextGreater(datetime_now(t.utc), table[j].expires_at)}
        |-> table[k]]

\* Database.cache_get
cache_get ==
    \E key \in CacheKeys :
        \E rows \in {SelectUnexpired(research_cache, key, db_now)} :
            /\ last_get' = Some([key |-> key, at |-> db_now.utc,
                                 result |-> IF rows # <<>>
                                            THEN Some(value_loads(rows[1].value))
                                            ELSE None])
            /\ research_cache' = IF rows # <<>> THEN research_cache
                                 ELSE _cleanup_cache(research_cache, db_now)
            /\ UNCHANGED <<db_now, last_set, concVars, schedVars, macroVars, gammaVars,
                           cotVars, synthVars>>

\* Time passes between two calls.
DbTick ==
    \E later \in {m \in DbMoments : m > db_now.utc} :
        /\ db_now' = [db_now EXCEPT !.utc = later]
        /\ UNCHANGED <<research_cache, last_set, last_get, concVars, schedVars,
                       macroVars, gammaVars, cotVars, synthVars>>

-----------------------------------------------------------------------------

(* SimpleScheduler                                                         *)

\* Times of day in half hours: the defaults "06:30" and "16:30".
HalfHoursPerDay == 48
PremarketTime == 13
PostmarketTime == 33

JobTypes == {"premarket", "postmarket"}
TimeOf(job_type) == IF job_type = "premarket" THEN PremarketTime ELSE PostmarketTime

\* The moments at which something happens: 06:00, 06:30 and 16:30 of day 0,
\* 06:30 and 16:30 of day 1.
SchedMoments ==
    {12, PremarketTime, PostmarketTime, HalfHoursPerDay + PremarketTime,
     HalfHoursPerDay + PostmarketTime}

\* The most start() and stop() calls made.
MaxCalls == 4

\* _get_next_run_time: today's target, or tomorrow's if it is not ahead.
_get_next_run_time(time_of_day, t) ==
    LET target == (t - (t % HalfHoursPerDay)) + time_of_day
    IN  IF target <= t THEN target + HalfHoursPerDay ELSE target

\* scheduler.enterabs(next_time, 1, job): the event, with the sequence
\* number the queue gives it.
enterabs(job_type, at, sequence) == [job |-> job_type, at |-> at, sequence |-> sequence]

\* The events ever entered: start() is the only caller of
\* _schedule_next_run, two events per start() that was not ignored.
EventsEntered(started) == 2 * Len(started)

\* _schedule_next_run(job_type)
_schedule_next_run(job_type, t, sequence) ==
    enterabs(job_type, _get_next_run_time(TimeOf(job_type), t), sequence)

\* A thread of run_scheduler about to test `while self.running`.
NewThread == [pc |-> "check", job |-> None]

SchedIdle ==
    /\ running = FALSE
    /\ queue = {}
    /\ premarket_job = None
    /\ postmarket_job = None
    /\ threads = <<>>
    /\ clock = 12
    /\ fired = <<>>
    /\ api_calls = <<>>

\* SimpleScheduler.__init__, at one of the moments of day 0.
SchedInit ==
    /\ running = FALSE
    /\ queue = {}
    /\ premarket_job = None
    /\ postmarket_job = None
    /\ threads = <<>>
    /\ clock \in {12, PremarketTime}
    /\ fired = <<>>
    /\ api_calls = <<>>

SchedFrame == UNCHANGED <<concVars, dbVars, macroVars, gammaVars, cotVars, synthVars>>

\* SimpleScheduler.start
Start ==
    /\ Len(api_calls) < MaxCalls
    /\ api_calls' = Append(api_calls, "start")
    /\ IF running
       THEN UNCHANGED <<running, queue, premarket_job, postmarket_job, threads>>
       ELSE \E pre \in {_schedule_next_run("premarket", clock, EventsEntered(threads) + 1)},
               post \in {_schedule_next_run("postmarket", clock,
                                            EventsEntered(threads) + 2)} :
                /\ running' = TRUE
                /\ premarket_job' = Some(pre)
                /\ postmarket_job' = Some(post)
                /\ queue' = queue \cup {pre, post}
                /\ threads' = Append(threads, NewThread)
    /\ UNCHANGED <<clock, fired>>
    /\ SchedFrame

\* scheduler.cancel(event) for each job in turn: [queue, raised].  Removing
\* an event that is no longer queued raises ValueError, which ends stop().
Cancel(q, job) ==
    IF job = None THEN [queue |-> q, raised |-> FALSE]
    ELSE IF Val(job) \in q THEN [queue |-> q \ {Val(job)}, raised |-> FALSE]
    ELSE [queue |-> q, raised |-> TRUE]

CancelBoth(q, pre, post) ==
    IF Cancel(q, pre).raised THEN Cancel(q, pre)
    ELSE Cancel(Cancel(q, pre).queue, post)

\* SimpleScheduler.stop
Stop ==
    /\ Len(api_calls) < MaxCalls
    /\ api_calls' = Append(api_calls, "stop")
    /\ IF ~running
       THEN UNCHANGED <<running, queue>>
       ELSE /\ running' = FALSE
            /\ queue' = CancelBoth(queue, premarket_job, postmarket_job).queue
    /\ UNCHANGED <<premarket_job, postmarket_job, threads, clock, fired>>
    /\ SchedFrame

\* run_scheduler: `while self.running`
ThreadCheck(t) ==
    /\ threads[t].pc = "check"
    /\ threads' = [threads EXCEPT ![t].pc = IF running THEN "run" ELSE "dead"]
    /\ UNCHANGED <<running, queue, premarket_job, postmarket_job, clock, fired, api_calls>>
    /\ SchedFrame

\* The head of the queue: the earliest event, the lowest sequence first.
Earlier(a, b) == a.at < b.at \/ (a.at = b.at /\ a.sequence <= b.sequence)
QueueHead(q) == CHOOSE e \in q : \A other \in q : Earlier(e, other)

\* scheduler.run(blocking=False), one turn of its loop: the head is popped
\* and its job begins if it is due; otherwise run returns and the thread
\* sleeps a second.
ThreadRun(t) ==
    /\ threads[t].pc = "run"
    /\ IF queue # {} /\ QueueHead(queue).at <= clock
       THEN /\ queue' = queue \ {QueueHead(queue)}
            /\ threads' = [threads EXCEPT ![t] = [pc |-> "job",
                                                  job |-> Some(QueueHead(queue).job)]]
            /\ fired' = Append(fired, [job |-> QueueHead(queue).job, at |-> clock,
                                       thread |-> t])
       ELSE /\ threads' = [threads EXCEPT ![t].pc = "check"]
            /\ UNCHANGED <<queue, fired>>
    /\ UNCHANGED <<running, premarket_job, postmarket_job, clock, api_calls>>
    /\ SchedFrame

\* generate_and_send_premarket / generate_and_send_postmarket returns: the
\* report was generated or the exception logged; nothing is scheduled.
JobReturns(t) ==
    /\ threads[t].pc = "job"
    /\ threads' = [threads EXCEPT ![t] = [pc |-> "run", job |-> None]]
    /\ UNCHANGED <<running, queue, premarket_job, postmarket_job, clock, fired, api_calls>>
    /\ SchedFrame

\* Time passes.
SchedTick ==
    \E later \in {m \in SchedMoments : m > clock} :
        /\ \A m \in SchedMoments : ~(clock < m /\ m < later)
        /\ clock' = later
        /\ UNCHANGED <<running, queue, premarket_job, postmarket_job, threads, fired,
                       api_calls>>
        /\ SchedFrame

-----------------------------------------------------------------------------

(* Two run_daily_brief calls on one Oracle, their stages interleaved       *)

Runs == {1, 2}

\* What a run's adapters and the provider answer: everything healthy with
\* the CFTC feed serving one of two reports, everything failing, and a
\* healthy run whose model reply is not JSON.
Healthy == [a \in Adapters |-> FALSE]
AllFailing == [a \in Adapters |-> TRUE]
ValidReply == ObjectText("valid", "valid", "valid", "valid", "valid")
RunInputs ==
    {[failing |-> Healthy, feed |-> Some(PipelineFeed), text |-> ValidReply],
     [failing |-> Healthy, feed |-> Some(<<AcceptedCrude>>), text |-> ValidReply],
     [failing |-> AllFailing, feed |-> None, text |-> ValidReply],
     [failing |-> Healthy, feed |-> Some(PipelineFeed), text |-> NotJson]}

\* The cache updated in place: the object every holder sees is changed.
AssignCache_InPlace(objects, ref, dict) ==
    [heap |-> [objects EXCEPT ![ref] = dict], ref |-> ref]

\* self._cache = <a new dict>: the name is bound to a new object and the
\* object it was bound to is left as it is.
AssignCache(objects, ref, dict) ==
    [heap |-> Append(objects, dict), ref |-> Len(objects) + 1]

\* Whether get_latest_report bound _cache to a new dict: _load_cache read a
\* JSON file, or _refresh_data accepted a row.
Rebinds(cache, file, out) ==
    \/ DOMAIN cache = {} /\ file.kind = "json"
    \/ out.fetched /\ out.result # ErrorReport

\* The state of run r as its fields read: cot_report through the object it
\* refers to, when that object is the client's.
View(states, refs, objects, r) ==
    IF refs[r] = 0 THEN states[r]
    ELSE [states[r] EXCEPT !.cot_report = objects[refs[r]]]

RunView(r) == View(run_state, run_ref, heap, r)

ConcIdle ==
    /\ run_pc = [r \in Runs |-> "new"]
    /\ run_state = <<>>
    /\ run_ref = <<>>
    /\ run_inputs = <<>>
    /\ received = <<>>
    /\ heap = <<EmptyDict>>
    /\ cache_ref = 1

\* An Oracle whose CotClient has an empty cache, and two callers about to
\* call run_daily_brief.
ConcInit ==
    /\ run_pc = [r \in Runs |-> "new"]
    /\ run_state = <<>>
    /\ run_ref = <<>>
    /\ run_inputs \in [Runs -> RunInputs]
    /\ received = <<>>
    /\ heap = <<EmptyDict>>
    /\ cache_ref = 1

ExtIdle == ConcIdle /\ SchedIdle /\ DbIdle

\* What the stages of a run leave alone.
RunFrame ==
    UNCHANGED <<run_inputs, schedVars, dbVars, macroVars, gammaVars, rowVars, report,
                skipped_log, last_call, written, raw_data, disk_writable, now,
                cache_valid, llmVars, renderVars, pc, state, failing, run_error,
                saves, auditVars, entryVars>>

Extend(f, r, v) == [x \in DOMAIN f \cup {r} |-> IF x = r THEN v ELSE f[x]]

\* state = MarketState()
RunStarts(r) ==
    /\ run_pc[r] = "new"
    /\ run_state' = Extend(run_state, r, MarketState(now))
    /\ run_ref' = Extend(run_ref, r, 0)
    /\ received' = Extend(received, r,
                          [started_at |-> now, cot |-> None, rendered_at |-> None])
    /\ run_pc' = [run_pc EXCEPT ![r] = "economic"]
    /\ UNCHANGED <<heap, cache_ref, _cache, _cache_timestamp, disk, reports>>
    /\ RunFrame

\* A stage of run r that calls stateless adapters only.
RunDataStage(r, stage, after) ==
    /\ run_pc[r] = stage
    /\ run_state' = [run_state EXCEPT ![r] = after]
    /\ run_pc' = [run_pc EXCEPT ![r] = Successor("daily", stage)]
    /\ UNCHANGED <<run_ref, received, heap, cache_ref, _cache, _cache_timestamp, disk,
                   reports>>
    /\ RunFrame

RunEconomic(r) ==
    RunDataStage(r, "economic",
                 MacroEconomistAnalyze(RunView(r), run_inputs[r].failing["fred"]))
RunGeopolitical(r) ==
    RunDataStage(r, "geopolitical",
                 GeopoliticalAnalystAnalyze(RunView(r), run_inputs[r].failing["tavily"]))
RunMarket(r) ==
    RunDataStage(r, "market",
                 CommoditySpecialistAnalyze(RunView(r),
                                            run_inputs[r].failing["alpha_vantage"]))
RunFutures(r) ==
    RunDataStage(r, "futures",
                 FuturesSpecialistAnalyze(RunView(r), run_inputs[r].failing["futures"]))

\* FlowAnalyst.analyze of run r on the Oracle's one CotClient: the error
\* dict is a new dict of the caller's, any other return is self._cache.
RunFlow(r) ==
    /\ run_pc[r] = "flow"
    /\ \E out \in {get_latest_report(_cache, _cache_timestamp, disk, run_inputs[r].feed,
                                      now, disk_writable)} :
        \E bound \in {IF Rebinds(_cache, disk, out)
                      THEN AssignCache(heap, cache_ref, out.cache)
                      ELSE [heap |-> heap, ref |-> cache_ref]} :
            /\ _cache' = out.cache
            /\ _cache_timestamp' = out.ts
            /\ disk' = out.disk
            /\ heap' = bound.heap
            /\ cache_ref' = bound.ref
            /\ run_ref' = [run_ref EXCEPT
                                ![r] = IF out.result = ErrorReport THEN 0 ELSE bound.ref]
            /\ run_state' = [run_state EXCEPT
                                ![r] = FlowAnalystAssign(RunView(r), out.result)]
            /\ received' = [received EXCEPT ![r].cot = Some(out.result)]
    /\ run_pc' = [run_pc EXCEPT ![r] = Successor("daily", "flow")]
    /\ UNCHANGED reports
    /\ RunFrame

RunSynthesis(r) ==
    /\ run_pc[r] = "synthesis"
    /\ \E out \in {synthesize(RunView(r), generate_with_schema(run_inputs[r].text))} :
        /\ run_state' = [run_state EXCEPT ![r] = out.state]
        /\ run_pc' = [run_pc EXCEPT ![r] = IF out.raised = None
                                           THEN Successor("daily", "synthesis")
                                           ELSE "aborted"]
    /\ UNCHANGED <<run_ref, received, heap, cache_ref, _cache, _cache_timestamp, disk,
                   reports>>
    /\ RunFrame

RunRender(r) ==
    /\ run_pc[r] = "render"
    /\ \E out \in {generate_daily(RunView(r), now, reports)} :
        /\ run_state' = [run_state EXCEPT ![r] = out.state]
        /\ reports' = out.saved
        /\ run_pc' = [run_pc EXCEPT ![r] = IF out.raised = None
                                                /\ SummaryError(out.state) = None
                                           THEN Successor("daily", "render")
                                           ELSE "aborted"]
    /\ received' = [received EXCEPT ![r].rendered_at = Some(now)]
    /\ UNCHANGED <<run_ref, heap, cache_ref, _cache, _cache_timestamp, disk>>
    /\ RunFrame

\* Time passes between two stages, to the Saturday after the Friday
\* cutover.
RunsTick ==
    /\ now < MaxNow
    /\ now' = MaxNow
    /\ UNCHANGED <<rowVars, clientVars, cache_valid, macroVars, gammaVars, synthVars,
                   extVars>>

-----------------------------------------------------------------------------

CotIdle == RowIdle /\ ClientIdle /\ ClockIdle

SpecMacroInit == MacroInit /\ GammaIdle /\ CotIdle /\ SynthIdle /\ ExtIdle
SpecMacroNext == DetermineRegime
SpecMacro == SpecMacroInit /\ [][SpecMacroNext]_vars

SpecGammaInit == GammaInit /\ MacroIdle /\ CotIdle /\ SynthIdle /\ ExtIdle
SpecGammaNext == CalculateGammaFromVix \/ GetMarketGamma
SpecGamma == SpecGammaInit /\ [][SpecGammaNext]_vars

-----------------------------------------------------------------------------
SpecPositioningInit == RowInit /\ ClientIdle /\ ClockIdle /\ MacroIdle /\ GammaIdle /\ SynthIdle /\ ExtIdle
SpecPositioningNext == ParseAndAnalyzeRow
SpecPositioning == SpecPositioningInit /\ [][SpecPositioningNext]_vars

SpecCacheValidInit == CacheValidInit /\ RowIdle /\ MacroIdle /\ GammaIdle /\ SynthIdle /\ ExtIdle
SpecCacheValidNext == IsCacheValid
SpecCacheValid == SpecCacheValidInit /\ [][SpecCacheValidNext]_vars

SpecCotInit == CotInit /\ RowIdle /\ MacroIdle /\ GammaIdle /\ SynthIdle /\ ExtIdle
SpecCotNext == GetLatestReport \/ NewClient \/ Advance
SpecCot == SpecCotInit /\ [][SpecCotNext]_vars

SpecRefreshInit == RefreshInit /\ RowIdle /\ MacroIdle /\ GammaIdle /\ SynthIdle /\ ExtIdle
SpecRefreshNext == RefreshData \/ NewClient
SpecRefresh == SpecRefreshInit /\ [][SpecRefreshNext]_vars

SpecLLMInit ==
    LlmInit /\ RenderIdle /\ PipeIdle /\ EntryIdle /\ MacroIdle /\ GammaIdle /\ CotIdle /\ ExtIdle
SpecLLMNext == ExtractJson \/ GenerateWithSchema
SpecLLM == SpecLLMInit /\ [][SpecLLMNext]_vars

SpecRenderInit ==
    RenderInit /\ LlmIdle /\ PipeIdle /\ EntryIdle /\ MacroIdle /\ GammaIdle /\ CotIdle /\ ExtIdle
SpecRenderNext == FormatTrades
SpecRender == SpecRenderInit /\ [][SpecRenderNext]_vars

SpecPipelineInit ==
    PipeInit /\ LlmIdle /\ RenderIdle /\ EntryIdle /\ MacroIdle /\ GammaIdle /\ CotIdle /\ ExtIdle
SpecPipelineNext ==
    \/ EconomicStage
    \/ GeopoliticalStage
    \/ FlowStage
    \/ MarketStage
    \/ FuturesStage
    \/ SynthesisStage
    \/ RenderStage
SpecPipeline == SpecPipelineInit /\ [][SpecPipelineNext]_vars

SpecOracleInit ==
    OracleInit /\ PipeIdle /\ LlmIdle /\ RenderIdle /\ MacroIdle /\ GammaIdle /\ CotIdle /\ ExtIdle
SpecOracleNext ==
    \/ Construct
    \/ RunDailyBrief
    \/ RunResearch
    \/ EconomicStage
    \/ GeopoliticalStage
    \/ FlowStage
    \/ MarketStage
    \/ FuturesStage
    \/ OracleSynthesis
    \/ RenderStage
    \/ Tick
SpecOracle == SpecOracleInit /\ [][SpecOracleNext]_vars

SpecReportInit ==
    ReportInit /\ LlmIdle /\ RenderIdle /\ MacroIdle /\ GammaIdle /\ CotIdle /\ ExtIdle
SpecReportNext == GenerateDaily \/ Tick
SpecReport == SpecReportInit /\ [][SpecReportNext]_vars

IdleButExt == MacroIdle /\ GammaIdle /\ CotIdle /\ SynthIdle

SpecConcurrentInit == ConcInit /\ SchedIdle /\ DbIdle /\ IdleButExt
SpecConcurrentNext ==
    \/ \E r \in Runs :
        \/ RunStarts(r)
        \/ RunEconomic(r)
        \/ RunGeopolitical(r)
        \/ RunFlow(r)
        \/ RunMarket(r)
        \/ RunFutures(r)
        \/ RunSynthesis(r)
        \/ RunRender(r)
    \/ RunsTick
SpecConcurrent == SpecConcurrentInit /\ [][SpecConcurrentNext]_vars

SpecSchedulerInit == SchedInit /\ ConcIdle /\ DbIdle /\ IdleButExt
SpecSchedulerNext ==
    \/ Start
    \/ Stop
    \/ \E t \in DOMAIN threads : ThreadCheck(t)
    \/ \E t \in DOMAIN threads : ThreadRun(t)
    \/ \E t \in DOMAIN threads : JobReturns(t)
    \/ SchedTick
SpecScheduler == SpecSchedulerInit /\ [][SpecSchedulerNext]_vars

SpecCacheInit == DbInit /\ ConcIdle /\ SchedIdle /\ IdleButExt
SpecCacheNext == cache_set \/ cache_get \/ DbTick
SpecCache == SpecCacheInit /\ [][SpecCacheNext]_vars

-----------------------------------------------------------------------------
(* Claims                                                                  *)

Present(o) == o # None

\* The eight rules as the specification lists them: a rule condition on a
\* missing input is false, a present input is compared as it is.
EightRules(d, r) ==
    LET vix == r["VIXCLS"]
        hy == r["BAMLH0A0HYM2"]
        curve == r["T10Y2Y"]
        gdp == d["GDP"]
        cpi == d["CPIAUCSL"]
        unrate == d["UNRATE"]
    IN  IF Present(vix) /\ Val(vix) > 300 THEN CRISIS
        ELSE IF Present(hy) /\ Val(hy) > 50 THEN RISK_OFF_CREDIT
        ELSE IF Present(curve) /\ Val(curve) < -5 THEN RISK_OFF_CURVE
        ELSE IF Present(cpi) /\ Val(cpi) > 35 /\ Present(unrate) /\ Val(unrate) < 45
            THEN TRANSITIONAL_LATE
        ELSE IF Present(cpi) /\ Val(cpi) > 35 THEN RISK_OFF_STAGFLATION
        ELSE IF Present(gdp) /\ Val(gdp) > 25 /\ Present(vix) /\ Val(vix) < 150
            THEN RISK_ON_GOLDILOCKS
        ELSE IF Present(gdp) /\ Val(gdp) > 25 THEN RISK_ON_EXPANSION
        ELSE TRANSITIONAL_MIXED

\* C8: the macro regime classifier returns the label of the first of the
\* eight listed rules whose condition holds, a missing input satisfying no
\* condition; VIX=35, HY=6.0, curve=-0.6 gives CRISIS and all inputs missing
\* gives TRANSITIONAL (mixed signals).
C8_FirstMatchingRule ==
    regime_analysis # None => Val(regime_analysis) = EightRules(data, risk)

\* A positioning record passes the three sanity bounds.
RecordInBounds(rec) ==
    /\ rec.open_interest > 0
    /\ Abs(rec.noncommercial_net) <= rec.open_interest
    /\ Abs(rec.commercial_net) <= rec.open_interest

\* C3: after any sequence of refreshes every positioning record in the
\* cache, in memory, on disk or returned to the caller, has open_interest > 0
\* and both nets within open_interest in magnitude; a row whose open interest
\* is 0 or resolves to 0 is never among the accepted records.
C3_AcceptedRecordsInBounds ==
    /\ \A a \in DOMAIN _cache : RecordInBounds(_cache[a])
    /\ disk.kind = "json" =>
            \A a \in DOMAIN disk.data : RecordInBounds(JsonLoadRecord(disk.data[a]))
    /\ (report # None /\ Val(report) # ErrorReport) =>
            \A a \in DOMAIN Val(report) : RecordInBounds(Val(report)[a])

\* C3 witness: a refresh at the current hour stored the Gold record of a feed
\* whose Crude Oil row was skipped for its open interest.
C3_Witness ==
    /\ _cache_timestamp = Some(now)
    /\ report = Some(_cache)
    /\ "Gold" \in DOMAIN _cache
    /\ "Crude Oil" \notin DOMAIN _cache
    /\ <<"Crude Oil", "invalid open_interest">> \in skipped_log

\* The Friday 4pm cutover that governs hour t: this week's on a Friday,
\* Saturday or Sunday, last week's from Monday to Thursday.
MostRecentCutover(t) ==
    LET monday == t - (t % (HoursPerDay * DaysPerWeek))
        friday_4pm == monday + Friday * HoursPerDay + CutoverHour
    IN  IF Weekday(t) >= Friday THEN friday_4pm
        ELSE friday_4pm - HoursPerDay * DaysPerWeek

\* C4: _is_cache_valid is true exactly when the cache is at most 7 days old
\* and either the current time is before the most recent Friday 4pm cutover
\* or the cache was refreshed after it, on every day of the week.
C4_ValidExactlyWhen ==
    (cache_valid # None /\ _cache_timestamp # None) =>
        LET ts == Val(_cache_timestamp)
            cutover == MostRecentCutover(now)
        IN  Val(cache_valid) =
                (/\ now - ts <= MaxCacheAgeDays * HoursPerDay
                 /\ (now < cutover \/ ts >= cutover))

\* The signal of a record by the listed order of checks, with the net
\* percentage compared as a fraction of open interest.
SignalInOrder(noncomm_net, comm_net, open_interest) ==
    IF noncomm_net * 100 > 30 * open_interest THEN "BEARISH - Contrarian"
    ELSE IF noncomm_net * 100 > 15 * open_interest THEN "CAUTIOUS - Longs crowded"
    ELSE IF noncomm_net * 100 < (-30) * open_interest THEN "BULLISH - Contrarian"
    ELSE IF noncomm_net * 100 < (-15) * open_interest THEN "CAUTIOUS - Shorts crowded"
    ELSE IF Abs(comm_net) * 10 > open_interest /\ comm_net > 0 THEN "BULLISH"
    ELSE IF Abs(comm_net) * 10 > open_interest /\ comm_net < 0 THEN "BEARISH"
    ELSE "NEUTRAL"

\* C9: the signal of every analyzed record is the one given by checking net
\* percent > 30, > 15, < -30, < -15, then commercial net beyond 10% of open
\* interest, else neutral, in that order; a record with net percent above 30
\* is labelled crowded longs / bearish contrarian whatever its commercial net.
C9_SignalOrder ==
    analyzed # None =>
        LET d == Val(analyzed)
        IN  /\ d.signal = SignalInOrder(d.noncommercial_net, d.commercial_net,
                                        d.open_interest)
            /\ d.noncommercial_net * 100 > 30 * d.open_interest =>
                    /\ d.positioning = "Speculative longs at extreme - CROWDED"
                    /\ d.signal = "BEARISH - Contrarian"

\* C9 witness: a record with net percent 35 and commercials net long by 15%
\* of open interest has been labelled crowded longs.
C9_Witness ==
    /\ analyzed # None
    /\ Val(analyzed).open_interest = 20
    /\ Val(analyzed).noncommercial_net = 7
    /\ Val(analyzed).commercial_net = 3
    /\ Val(analyzed).signal = "BEARISH - Contrarian"

FirstFencedBlocks(raw) ==
    LET fences == {i \in 1..Len(raw) : raw[i] \in {"<fence>", "<fence>json"}}
    IN  {SubSeq(raw, p[1] + 1, p[2] - 1) :
            p \in {q \in fences \X fences :
                    /\ q[1] < q[2]
                    /\ \A k \in fences : k >= q[1] /\ (k > q[1] => k >= q[2])}}

\* The largest substring that starts with an opening and ends with a
\* closing brace (none when no closing brace follows an opening one).
LargestBraced(raw) ==
    LET braced == {p \in (1..Len(raw)) \X (1..Len(raw)) :
                     p[1] < p[2] /\ raw[p[1]] = "{" /\ raw[p[2]] = "}"}
    IN  {SubSeq(raw, p[1], p[2]) :
            p \in {q \in braced : \A o \in braced : o[2] - o[1] <= q[2] - q[1]}}

ParseOfAny(texts) ==
    IF texts = {} THEN None ELSE json_loads(CHOOSE text \in texts : TRUE)

AttemptIfAny(texts, tier) == IF texts = {} THEN <<>> ELSE <<tier>>

\* The three tiers in the documented order: the parse of the first tier
\* that succeeds, and the tiers tried up to it.
FirstSuccess(full, fenced, braces, blocks, spans) ==
    IF full # None THEN [value |-> Val(full), attempts |-> <<"full">>]
    ELSE IF fenced # None
        THEN [value |-> Val(fenced), attempts |-> <<"full", "fenced">>]
    ELSE [value |-> IF braces # None THEN Val(braces) ELSE PyNone,
          attempts |-> <<"full">> \o AttemptIfAny(blocks, "fenced")
                                  \o AttemptIfAny(spans, "braces")]

\* C6: _extract_json tries (a) the full response, (b) the contents of a
\* fenced code block, (c) the largest brace-delimited substring, in that
\* order, a tier only after every earlier one failed to parse, and returns
\* the parse of the first tier that succeeds.
C6_TiersInOrder ==
    extracted # None =>
        Val(extracted) = FirstSuccess(json_loads(response),
                                      ParseOfAny(FirstFencedBlocks(response)),
                                      ParseOfAny(LargestBraced(response)),
                                      FirstFencedBlocks(response),
                                      LargestBraced(response))

\* Prose in a fenced block followed by an object: all three tiers are
\* tried and the third one's parse is returned.
C6_Witness ==
    /\ response = <<"<fence>", "not", "<fence>", "{", "}">>
    /\ extracted = Some([value |-> EmptyPyDict,
                         attempts |-> <<"full", "fenced", "braces">>])

NoTierParses(raw) ==
    /\ json_loads(raw) = None
    /\ ParseOfAny(FirstFencedBlocks(raw)) = None
    /\ ParseOfAny(LargestBraced(raw)) = None

\* The quality entry holds the leading part of the raw text.
HoldsLeadingFragment(issue, raw) ==
    /\ issue.kind = "fstr"
    /\ Len(issue.names) <= Len(raw)
    /\ issue.names = SubSeq(raw, 1, Len(issue.names))
    /\ issue.names # <<>> \/ raw = <<>>

CanonicalDegraded(result, raw) ==
    /\ IsDict(result)
    /\ DictGet(result, "regime", PyNone)
         = PyDict(<< <<"label", PyStr("TRANSITIONAL")>>, <<"drivers", PyList(<<>>)>>,
                     <<"falsifiers", PyList(<<>>)>> >>)
    /\ DictGet(result, "trades", PyNone) = PyList(<<>>)
    /\ DictGet(result, "positioning_analysis", PyNone) = PyDict(<<>>)
    /\ DictGet(result, "confidence", PyNone) = PyNum(0)
    /\ DictGet(result, "data_quality_issues", PyNone).kind = "list"
    /\ Len(DictGet(result, "data_quality_issues", PyNone).items) = 1
    /\ HoldsLeadingFragment(DictGet(result, "data_quality_issues", PyNone).items[1], raw)

\* C5: when none of the three extraction tiers yields JSON,
\* generate_with_schema returns the canonical degraded result: regime
\* TRANSITIONAL with no drivers and no falsifiers, no trades, an empty
\* positioning analysis, confidence 0.0 and one data-quality entry holding
\* the leading fragment of the raw response.
C5_DegradedResult ==
    (schema_result # None /\ NoTierParses(response)) =>
        CanonicalDegraded(Val(schema_result), response)

\* The marker of a failed provider call went through the gateway.
C5_Witness ==
    /\ response = LlmErrorMarker
    /\ schema_result # None
    /\ DictGet(Val(schema_result), "confidence", PyNone) = PyNum(0)
    /\ DictGet(Val(schema_result), "data_quality_issues", PyNone).items[1].names
         = <<"LLM", "Error:", "timed">>

\* A trade with name, instrument, entry, stop and target all present and
\* non-empty.
CompleteTrade(trade) ==
    /\ IsDict(trade)
    /\ \A f \in {"name", "instrument", "entry", "stop", "target"} :
        /\ HasKey(trade, f)
        /\ DictGet(trade, f, PyNone) \notin {PyNone, PyStr("")}

RendersAs(block, n, trade) ==
    /\ block.ordinal = n
    /\ block.name = DictGet(trade, "name", PyNone)
    /\ block.instrument = DictGet(trade, "instrument", PyNone)
    /\ block.entry = DictGet(trade, "entry", PyNone)
    /\ block.stop = DictGet(trade, "stop", PyNone)
    /\ block.target = DictGet(trade, "target", PyNone)

C1_EveryRunProducesReport ==
    /\ run_error = None
    /\ pc # "aborted"
    /\ pc = "done" => (state.date \in DOMAIN reports /\ state.markdown_report # None)

StagesDone ==
    IF pc = "economic" THEN 0 ELSE IF pc = "geopolitical" THEN 1
    ELSE IF pc = "flow" THEN 2 ELSE IF pc = "market" THEN 3
    ELSE IF pc = "futures" THEN 4 ELSE IF pc = "idle" THEN 0 ELSE 5

\* The error and default markers the failing adapters leave on the state.
FailuresMarked ==
    /\ StagesDone >= 1 =>
        /\ \A k \in DOMAIN state.economic_indicators :
            /\ state.economic_indicators[k].value = None
            /\ state.economic_indicators[k].error # None
        /\ \A k \in DOMAIN state.risk_indicators :
            state.risk_indicators[k].error # None
        /\ state.regime_analysis = "TRANSITIONAL - Mixed signals"
    /\ StagesDone >= 2 =>
        \A i \in 1..Len(state.geopolitical_events) :
            /\ state.geopolitical_events[i].title = ""
            /\ state.geopolitical_events[i].source = <<"Tavily API", "">>
    /\ StagesDone >= 3 =>
        /\ "error" \in DOMAIN state.cot_report
        /\ "error" \in DOMAIN state.positioning
    /\ StagesDone >= 4 =>
        \A y \in DOMAIN state.market_data : state.market_data[y].error # None
    /\ StagesDone >= 5 =>
        /\ state.gamma_regime.vix_level = None
        /\ state.key_levels.ES_current = None
        /\ state.key_levels.ES_support = <<5800, 5750, 5700>>

\* A finished run rendered its report with the gateway's confidence.
ReportedWithGatewayConfidence ==
    /\ state.date \in DOMAIN reports
    /\ state.markdown_report # None
    /\ HasKey(Val(schema_result), "confidence") =>
        state.confidence = DictGet(Val(schema_result), "confidence", PyNone)

\* C2: when every data adapter fails in the same run, the run never
\* aborts, each failure is recorded as an error or default marker on the
\* state, the later stages still execute, the report is rendered, and
\* state.confidence is the value the synthesis gateway returned.
C2_AllAdaptersFail ==
    (\A a \in Adapters : failing[a]) =>
        /\ run_error = None
        /\ pc # "aborted"
        /\ FailuresMarked
        /\ pc = "done" => ReportedWithGatewayConfidence

-----------------------------------------------------------------------------
\* C11: within one pipeline run each collaborator boundary call is attempted
\* exactly once: the positioning feed, the futures overview and each economic
\* series are requested at most one time, also after a failed attempt.
C11_EachCallAttemptedOnce ==
    \A c \in BoundaryCalls : requests[c] <= 1

-----------------------------------------------------------------------------
\* The state fields synthesize reads: its keyword arguments and the sources.
SynthesisReads ==
    {"economic_indicators", "geopolitical_events", "positioning", "market_data",
     "risk_indicators", "futures_data", "futures_positioning", "gamma_regime",
     "key_levels", "sources"}

\* The data stages, which run_daily_brief is to call before synthesis.
UpstreamStages == {"economic", "geopolitical", "flow", "market", "futures"}

\* C12: run_daily_brief executes economic, geopolitical, flow, market,
\* futures, synthesis, render in exactly that order, each once, a stage
\* starting only when its predecessor has returned; every state field the
\* synthesis stage reads was last written by a stage that ran before it.
C12_StagesInFixedOrder ==
    LET order == <<"economic", "geopolitical", "flow", "market", "futures",
                   "synthesis", "render">>
    IN  entry = "daily" =>
            /\ Len(stages) <= Len(order)
            /\ \A i \in 1..Len(stages) : stages[i] = order[i]
            /\ pc = "done" => stages = order
            /\ pc \notin {"idle", "done", "aborted"} => pc = order[Len(stages) + 1]
            /\ pc = "synthesis" =>
                \A f \in SynthesisReads :
                    /\ writers[f] # <<>>
                    /\ writers[f][Len(writers[f])] \in UpstreamStages
                    /\ \E i \in 1..Len(stages) : stages[i] = writers[f][Len(writers[f])]

\* A daily run has gone through all seven stages and synthesis has read
\* fields the five data stages wrote.
C12_Witness ==
    /\ entry = "daily"
    /\ pc = "done"
    /\ Len(stages) = 7
    /\ synthesis_input # None
    /\ \A f \in SynthesisReads \ {"sources"} : writers[f] # <<>>

-----------------------------------------------------------------------------
\* C13: report rendering is deterministic: two invocations of generate_daily
\* on identical aggregate states produce identical report strings, whenever
\* each invocation happens.
C13_RenderingDeterministic ==
    \A i \in 1..Len(rendered) : \A j \in 1..Len(rendered) :
        (rendered[i].raised = None /\ rendered[j].raised = None) =>
            rendered[i].report = rendered[j].report

-----------------------------------------------------------------------------
\* The first Friday 4pm cutover after hour t.
NextCutover(t) ==
    LET monday == t - (t % (HoursPerDay * DaysPerWeek))
        friday_4pm == monday + Friday * HoursPerDay + CutoverHour
    IN  IF t < friday_4pm THEN friday_4pm
        ELSE friday_4pm + HoursPerDay * DaysPerWeek

\* A get_latest_report call by a client with nothing in memory that found a
\* cache file written by a successful refresh, at most 7 days old and from
\* after the last weekly cutover.
ReadBeforeExpiry ==
    /\ last_call # None
    /\ Val(last_call).fresh
    /\ Val(last_call).on_disk # None
    /\ Val(last_call).file_ts # None
    /\ Val(last_call).at - Val(Val(last_call).file_ts) <= MaxCacheAgeDays * HoursPerDay
    /\ Val(last_call).at < NextCutover(Val(Val(last_call).file_ts))

\* C14: after a successful refresh has written the cache file, a fresh
\* client that reads it before the 7-day ceiling and before the next weekly
\* cutover gets from get_latest_report the record set that was written,
\* without fetching the feed again.
C14_CacheRoundTrip ==
    ReadBeforeExpiry =>
        /\ ~Val(last_call).fetched
        /\ report = Some(Val(Val(last_call).on_disk))
        /\ _cache = Val(Val(last_call).on_disk)

\* A new process read, a day after it was written, a cache file holding at
\* least one record, and returned it without a fetch.
C14_Witness ==
    /\ ReadBeforeExpiry
    /\ Val(last_call).at > Val(Val(last_call).file_ts)
    /\ ~Val(last_call).fetched
    /\ Val(Val(last_call).on_disk) # EmptyDict
    /\ report = Val(last_call).on_disk

-----------------------------------------------------------------------------
\* The last get_latest_report call fetched the feed, got an answer, and
\* accepted none of its rows.
RefreshAcceptedNothing ==
    /\ last_call # None
    /\ Val(last_call).fetched
    /\ Val(last_call).answered
    /\ Val(last_call).accepted = 0

\* C15: a refresh that accepts zero rows fails instead of installing an
\* empty record set: the call returns the error report, and neither the
\* cache in memory, nor the cache file, nor any record set a refresh saved
\* is ever empty.
C15_EmptyRefreshFails ==
    /\ RefreshAcceptedNothing => report = Some(ErrorReport)
    /\ _cache_timestamp # None => _cache # EmptyDict
    /\ disk.kind = "json" => JsonLoad(disk.data) # EmptyDict
    /\ written # None => Val(written) # EmptyDict

\* A refresh read a feed whose rows were all skipped and the call returned
\* the error report.
C15_Witness ==
    /\ RefreshAcceptedNothing
    /\ skipped_log # {}
    /\ report = Some(ErrorReport)

-----------------------------------------------------------------------------
\* The API key of the configured provider, the one LLMClient's error message
\* asks for.
ProviderKey(cfg) ==
    IF cfg.llm_provider = "anthropic" THEN cfg.anthropic_api_key
    ELSE cfg.openai_api_key

RequiredKeyAbsent(cfg) ==
    \/ cfg.fred_api_key = ""
    \/ cfg.tavily_api_key = ""
    \/ cfg.alpha_vantage_api_key = ""
    \/ ProviderKey(cfg) = ""

\* C16: if any required credential (FRED, Tavily, Alpha Vantage or LLM API
\* key) is absent, constructing the Oracle raises; no pipeline stage runs and
\* no adapter call is made.
C16_MissingCredentialRaises ==
    (oracle # NoOracle /\ RequiredKeyAbsent(settings)) =>
        /\ oracle.error # None
        /\ ~oracle.constructed
        /\ runs = 0
        /\ stages = <<>>
        /\ requests = NoRequests

-----------------------------------------------------------------------------
\* C17: after run_daily_brief completes, the report store holds at the key
\* (daily, state.date) exactly the string state.markdown_report;
\* regenerating for the same date overwrites that entry, so after any number
\* of runs on one date the store holds one artifact for that date, equal to
\* the last run's report.
C17_StoreHoldsLastReport ==
    (entry = "daily" /\ pc = "done") =>
        /\ state.markdown_report # None
        /\ state.date \in DOMAIN reports
        /\ reports[state.date] = Val(state.markdown_report)
        /\ DOMAIN reports = DOMAIN saves
        /\ Cardinality(DOMAIN reports) <= runs

\* The second daily run of one date has completed, an hour after the first:
\* its report replaced the first run's in the store.
C17_Witness ==
    /\ entry = "daily"
    /\ pc = "done"
    /\ runs = 2
    /\ state.date \in DOMAIN saves
    /\ saves[state.date] = 2
    /\ Cardinality(DOMAIN reports) = 1
    /\ reports[state.date] = Val(state.markdown_report)
    /\ reports[state.date].generated = FormatTime(StartHour + 1)

-----------------------------------------------------------------------------
\* C18: run_research returns a Report: on return the state's markdown_report
\* has been produced by the renderer, as it is for run_daily_brief.
C18_ResearchReturnsReport ==
    (entry = "research" /\ pc = "done") =>
        /\ state.markdown_report # None
        /\ \E i \in 1..Len(stages) : stages[i] = "render"

-----------------------------------------------------------------------------
\* C19: during a run every field of the aggregate state has exactly one
\* writing stage: no field is assigned or appended to by two different
\* stages.
C19_OneWriterPerField ==
    \A f \in Fields : Cardinality(Range(writers[f])) <= 1

-----------------------------------------------------------------------------
\* C20: when the synthesis stage of run_daily_brief reads state.futures_data,
\* it holds the futures overview returned by get_futures_overview in the
\* futures stage, a value distinct from the gamma analysis held in
\* state.gamma_regime.
C20_SynthesisReadsFuturesOverview ==
    (entry = "daily" /\ synthesis_input # None) =>
        /\ Val(synthesis_input).futures_data = get_futures_overview(failing["futures"])
        /\ Val(synthesis_input).futures_data # Val(synthesis_input).gamma_regime

-----------------------------------------------------------------------------
\* The last get_latest_report call ran a refresh that failed: the fetch
\* raised, or no row of the feed was accepted.
RefreshFailed(call) ==
    /\ call # None
    /\ Val(call).fetched
    /\ (~Val(call).answered \/ Val(call).accepted = 0)

\* The client's fields when the refresh starts: what it held, or what it
\* loaded from the cache file when it held nothing.
BeforeRefresh ==
    IF _cache = EmptyDict THEN _load_cache(_cache, _cache_timestamp, disk)
    ELSE [cache |-> _cache, ts |-> _cache_timestamp]

\* C21: a failed refresh of the positioning feed (fetch error, or zero rows
\* accepted) leaves the in-memory record set, the cache timestamp and the
\* cache file unchanged, and get_latest_report returns an error marker.
C21_FailedRefreshChangesNothing ==
    [][(now' = now /\ RefreshFailed(last_call')) =>
            /\ _cache' = BeforeRefresh.cache
            /\ _cache_timestamp' = BeforeRefresh.ts
            /\ disk' = disk
            /\ written' = written
            /\ report' = Some(ErrorReport)]_vars

\* A client holding Thursday's records ran a refresh that failed: records,
\* timestamp and file are still Thursday's, and the error marker came back.
C21_Witness ==
    /\ RefreshFailed(last_call)
    /\ ~Val(last_call).fresh
    /\ _cache # EmptyDict
    /\ _cache_timestamp = Some(StartHour)
    /\ Val(last_call).file_ts = Some(StartHour)
    /\ disk.kind = "json"
    /\ JsonLoad(disk.data) = _cache
    /\ now > StartHour
    /\ report = Some(ErrorReport)

-----------------------------------------------------------------------------
\* The rows of the feed the refresh accepts for asset a, by position.
AcceptedRowsOf(rows, a, today) ==
    {i \in 1..Len(rows) :
        /\ _parse_cot_row(rows[i], today) # None
        /\ Val(_parse_cot_row(rows[i], today)).asset = a}

\* The assets some row of the feed is accepted for.
AcceptedAssets(rows, today) ==
    {Val(_parse_cot_row(rows[i], today)).asset :
        i \in {j \in 1..Len(rows) : _parse_cot_row(rows[j], today) # None}}

\* The last call refreshed the client from raw_data.
RefreshedFromFeed ==
    /\ last_call # None
    /\ Val(last_call).fetched
    /\ Val(last_call).accepted > 0

\* C22: within one refresh the record kept for a canonical asset is that of
\* the first accepted feed row that maps to the asset, in feed order; later
\* rows for the asset are dropped and never replace or alter the record.
C22_FirstRowWins ==
    RefreshedFromFeed =>
        LET rows == Val(raw_data)
            today == Val(last_call).at \div HoursPerDay
        IN  /\ DOMAIN _cache = AcceptedAssets(rows, today)
            /\ \A a \in DOMAIN _cache :
                _cache[a] = _analyze_positioning(
                    Val(_parse_cot_row(rows[Min(AcceptedRowsOf(rows, a, today))], today)))

\* A refresh read two accepted Gold rows with different figures and kept
\* the record of the first.
C22_Witness ==
    /\ RefreshedFromFeed
    /\ Cardinality(AcceptedRowsOf(Val(raw_data), "Gold",
                                  Val(last_call).at \div HoursPerDay)) = 2
    /\ _parse_cot_row(Val(raw_data)[1], Val(last_call).at \div HoursPerDay)
        # _parse_cot_row(Val(raw_data)[2], Val(last_call).at \div HoursPerDay)
    /\ _cache["Gold"] = _analyze_positioning(
            Val(_parse_cot_row(Val(raw_data)[1], Val(last_call).at \div HoursPerDay)))

-----------------------------------------------------------------------------
\* The cache file holds records but its timestamp is null or unreadable,
\* and the client has no timestamp of its own.
FileWithoutTimestamp ==
    /\ disk.kind = "json"
    /\ disk.timestamp.kind \in {"null", "malformed"}
    /\ JsonLoad(disk.data) # EmptyDict
    /\ _cache_timestamp = None

\* C23: a cache file whose timestamp is missing or malformed is treated as
\* no cache: get_latest_report never returns its record set; it performs a
\* refresh, and returns an error marker if that refresh fails.
C23_NoTimestampNoCache ==
    [][(FileWithoutTimestamp /\ now' = now /\ last_call' # None) =>
            /\ Val(last_call').fetched
            /\ report' # Some(JsonLoad(disk.data))
            /\ RefreshFailed(last_call') => report' = Some(ErrorReport)
            /\ ~RefreshFailed(last_call') =>
                    /\ report' = Some(_cache')
                    /\ DOMAIN _cache' =
                        AcceptedAssets(Val(raw_data), now \div HoursPerDay)]_vars

\* A new client found a file with a malformed timestamp; its refresh failed:
\* the file's records are in memory, and the call returned the error marker.
C23_Witness ==
    /\ disk.kind = "json"
    /\ disk.timestamp.kind = "malformed"
    /\ RefreshFailed(last_call)
    /\ Val(last_call).fresh
    /\ _cache = StoredRecords
    /\ StoredRecords # EmptyDict
    /\ _cache_timestamp = None
    /\ report = Some(ErrorReport)

-----------------------------------------------------------------------------
NoDuplicates(xs) ==
    \A i \in 1..Len(xs) : \A j \in 1..Len(xs) : i # j => xs[i] # xs[j]

IsPrefix(xs, ys) ==
    /\ Len(xs) <= Len(ys)
    /\ \A i \in 1..Len(xs) : xs[i] = ys[i]

\* C24: when the state is handed to the renderer, state.sources has no
\* duplicate entry and, as a set, equals the set of all sources the earlier
\* stages appended; no stage other than synthesis removes entries.
C24_SourcesDeduplicatedOnce ==
    [][/\ pc \in UpstreamStages => IsPrefix(state.sources, state'.sources)
       /\ (pc = "synthesis" /\ pc' = "render") =>
            /\ NoDuplicates(state'.sources)
            /\ Range(state'.sources) = Range(state.sources)
       /\ pc = "render" => state'.sources = state.sources]_vars

\* The state reaches the renderer after a run in which the quote adapter
\* failed for every symbol: the repeated attribution is listed once.
C24_Witness ==
    /\ pc = "render"
    /\ failing["alpha_vantage"]
    /\ NoDuplicates(state.sources)
    /\ Len(state.sources) < Len(AfterData(failing).sources)
    /\ Range(state.sources) = Range(AfterData(failing).sources)
    /\ Cardinality({i \in 1..Len(AfterData(failing).sources) :
                        AfterData(failing).sources[i] = Source("Alpha Vantage", "")}) > 1

-----------------------------------------------------------------------------
\* The synthesis stage has run on a response that is a JSON object with a
\* trades member.
SynthesizedFromObject ==
    /\ \E i \in 1..Len(stages) : stages[i] = "synthesis"
    /\ json_loads(response) # None
    /\ IsDict(Val(json_loads(response)))
    /\ HasKey(Val(json_loads(response)), "trades")

\* C25: when the model response parses as a JSON object, the gateway and the
\* synthesis stage pass its trades through unchanged: state.trades equals the
\* parsed trades list element for element, whatever the conviction, size_pct
\* and direction of its trades; nothing is clamped, dropped or flagged.
C25_TradesPassThrough ==
    SynthesizedFromObject =>
        LET parsed == Val(json_loads(response))
        IN  /\ state.trades = DictGet(parsed, "trades", PyNone)
            /\ state.recommendations = DictGet(parsed, "trades", PyNone)
            /\ state.data_quality_issues =
                    DictGet(parsed, "data_quality_issues", EmptyPyList)

\* A run completed on a response whose first trade has direction HOLD,
\* conviction 9 and size_pct 250.0: the state holds that trade as parsed.
C25_Witness ==
    /\ pc = "done"
    /\ SynthesizedFromObject
    /\ state.trades = WildTradesValue
    /\ DictGet(state.trades.items[1], "direction", PyNone) = PyStr("HOLD")
    /\ DictGet(state.trades.items[1], "conviction", PyNone) = PyNum(90)
    /\ DictGet(state.trades.items[1], "size_pct", PyNone) = PyNum(2500)
    /\ state.data_quality_issues = EmptyPyList

-----------------------------------------------------------------------------
\* Both the base classification and the gamma analysis of the VIX reading
\* have been computed.
GammaAnalysed ==
    /\ gamma_tuple # None
    /\ gamma_analysis # None
    /\ Val(gamma_analysis).gamma_regime # UNKNOWN

\* C26: the realized-versus-implied volatility adjustment in get_market_gamma
\* changes the gamma regime only when the base (normalized) regime is
\* NEUTRAL: a base of SHORT or LONG is returned unchanged whatever the
\* realized volatility, and when the secondary input is absent or its fetch
\* fails the base regime is returned unchanged.
C26_AdjustmentOnlyWhenNeutral ==
    GammaAnalysed =>
        LET base == Val(gamma_tuple).gamma_normalized
            returned == Val(gamma_analysis).gamma_regime
        IN  /\ base \in {SHORT, LONG} => returned = base
            /\ spy_vol = None => returned = base
            /\ returned # base => base = NEUTRAL
            /\ returned \in {SHORT, NEUTRAL, LONG}

\* A VIX reading whose base regime is LONG with realized volatility below
\* 0.8 of it: the note of the adjustment is there, the regime is still LONG.
C26_Witness ==
    /\ GammaAnalysed
    /\ Val(gamma_tuple).gamma_normalized = LONG
    /\ spy_vol # None
    /\ 10 * Val(spy_vol) < 8 * Val(vix_price)
    /\ Val(gamma_analysis).gamma_regime = LONG
    /\ \E i \in 1..Len(Val(gamma_analysis).notes) :
        Val(gamma_analysis).notes[i] = "Realized vol < implied vol - options overpriced"

\* C30: cache_get(key) after cache_set(key, value, ttl_seconds) returns value
\* while fewer than ttl_seconds have elapsed since the set, and None once
\* ttl_seconds have elapsed.
C30_CacheHonoursTtl ==
    last_get # None =>
        LET got == Val(last_get)
            set == last_set[got.key]
        IN  set # None =>
                got.result = IF got.at - Val(set).at < Val(set).ttl
                             THEN Some(Val(set).value) ELSE None

\* A run of the job type is pending: an event for it is queued, or one of
\* the threads is executing it.
Pending(job_type) ==
    \/ \E e \in queue : e.job = job_type
    \/ \E t \in DOMAIN threads : threads[t].job = Some(job_type)

\* C28: while the scheduler is running, each job type (premarket,
\* postmarket) has a next run pending: after a job has fired, a run of the
\* same type is scheduled for its next daily time.
C28_NextRunAlwaysPending ==
    running =>
        \A job_type \in JobTypes :
            /\ Pending(job_type)
            /\ \A i \in 1..Len(fired) :
                fired[i].job = job_type /\ ~(\E t \in DOMAIN threads :
                                                threads[t].job = Some(job_type)) =>
                    \E e \in queue :
                        /\ e.job = job_type
                        /\ e.at = _get_next_run_time(TimeOf(job_type), fired[i].at)

\* The threads that have not left run_scheduler, and those inside a job.
AliveThreads == {t \in DOMAIN threads : threads[t].pc # "dead"}
ThreadsInJob == {t \in DOMAIN threads : threads[t].pc = "job"}

\* The step is a start() call made while the scheduler is running.
StartWhileRunning == running /\ api_calls' = Append(api_calls, "start")

\* C29: after any sequence of start() and stop() calls at most one thread
\* executes the job queue, so no two scheduled runs execute at the same
\* time; a start() made while running schedules nothing and starts no
\* thread.
C29_OneSchedulerThread ==
    [][/\ Cardinality(AliveThreads') <= 1
       /\ Cardinality(ThreadsInJob') <= 1
       /\ StartWhileRunning => queue' = queue /\ threads' = threads]_vars

\* The state run r has after the stages it has completed, computed from a
\* fresh MarketState and the results the run itself was handed, with no
\* other run present.
Alone(inputs, got, stage) ==
    LET f == inputs.failing
        s0 == MarketState(got.started_at)
        s1 == MacroEconomistAnalyze(s0, f["fred"])
        s2 == GeopoliticalAnalystAnalyze(s1, f["tavily"])
        s3 == FlowAnalystAssign(s2, Val(got.cot))
        s4 == CommoditySpecialistAnalyze(s3, f["alpha_vantage"])
        s5 == FuturesSpecialistAnalyze(s4, f["futures"])
        s6 == synthesize(s5, generate_with_schema(inputs.text)).state
    IN  IF stage = "economic" THEN s0
        ELSE IF stage = "geopolitical" THEN s1
        ELSE IF stage = "flow" THEN s2
        ELSE IF stage = "market" THEN s3
        ELSE IF stage = "futures" THEN s4
        ELSE IF stage = "synthesis" THEN s5
        ELSE IF stage = "render" \/ got.rendered_at = None THEN s6
        ELSE generate_daily(s6, Val(got.rendered_at), EmptyDict).state

\* C27: two runs executing concurrently each have their own aggregate
\* state: under every interleaving of their stages a step of one run leaves
\* every field of the other run's state as it was, and each run's state,
\* the final one included, is what the run alone would have produced from
\* the same adapter results.
C27_RunsAreIsolated ==
    [][/\ \A r \in DOMAIN run_state :
            run_pc'[r] = run_pc[r] =>
                View(run_state', run_ref', heap', r) = RunView(r)
       /\ \A r \in DOMAIN run_state' :
            View(run_state', run_ref', heap', r)
                = Alone(run_inputs[r], received'[r], run_pc'[r])]_vars

\* Both runs have finished, interleaved; the second flow stage found the
\* cache filled by the first out of date and replaced it with other records.
C27_Witness ==
    /\ \A r \in Runs : run_pc[r] = "done"
    /\ run_ref[1] # 0 /\ run_ref[2] # 0
    /\ run_ref[1] # run_ref[2]
    /\ heap[run_ref[1]] # heap[run_ref[2]]
    /\ received[1].started_at = received[2].started_at
====
